---- MODULE Spec2Model ----
(***************************************************************************)
(* Spend Sight: the storage selector (in-memory / document backend), the   *)
(* two storage backends and the HTTP route handlers that call them.        *)
(*                                                                         *)
(* Modelling conventions                                                   *)
(*  - An id is a pair <<g, n>>: g = 0 for a token of generateId, g = -1   *)
(*    for a database ObjectId, g = -2 for a string sent by a client that   *)
(*    is neither (among them the ids of an earlier MemStorage instance).   *)
(*    In the request specifications generateId and ObjectId hand out fresh *)
(*    tokens: n counts up within one store.  SpecIds calls the MemStorage  *)
(*    create methods with any token as the next output of Math.random.     *)
(*  - A backend instance is [kind, inst]; an instance number is reused     *)
(*    once neither the binding nor a request in flight refers to it.       *)
(*  - Time is abstracted: the three timers fire in the order node gives    *)
(*    them (100 ms, then the 2 s interval any number of times, the 30 s    *)
(*    stop at any point after the first attempt).                          *)
(*  - A Map / a collection is a sequence of rows in insertion order.       *)
(*  - A number is kept in hundredths; NaN is the value NaN.                *)
(*  - Every row carries the ghost field via: the kind of backend through   *)
(*    which it was created.                                                *)
(*  - node runs one macrotask at a time: a handler runs from one real      *)
(*    suspension point (database or AI round trip) to the next as one      *)
(*    action.  An await of a MemStorage method resumes in a microtask, so  *)
(*    no timer or driver event runs in between.                            *)
(*  - mongoose emits 'connected' / 'disconnected' synchronously when it    *)
(*    changes connection.readyState, so the state change and the listener  *)
(*    of storage.ts are one action.                                        *)
(*  - The specifications share the state: Spec (the selector with its      *)
(*    timers and the two handlers that make several storage calls),        *)
(*    SpecStore (the routes that make one storage call), SpecUsers (the    *)
(*    routes through which two users create rows), SpecStats (the          *)
(*    analytics read over expenses of every kind of category), SpecRace    *)
(*    (the analytics read beside a request that writes), SpecLists (the    *)
(*    listing routes), SpecAi (the two AI services behind their routes),   *)
(*    SpecAmounts (the amounts a client may send), SpecWs (the WebSocket   *)
(*    server), SpecNotify (the writing routes beside that server),         *)
(*    SpecRegen (two insight regenerations in flight), SpecSeed (the       *)
(*    category listing under the driver events, with fairness), SpecOwners *)
(*    (two users writing by id), SpecHook (the client useWebSocket hook)   *)
(*    and SpecIds (the MemStorage create methods under any token).         *)
(***************************************************************************)
EXTENDS Integers, Sequences, FiniteSets, TLC

\* -------------------------------------------------------------- bounds
\* rows the two backends together may create between two resets of the
\* in-memory one
MaxCreates == 3
\* the same cap for the specification of the single-call routes
MaxStoreCreates == 2

\* ------------------------------------------------------ program constants
DefaultLimit == 50
DefaultMonthlyIncome == 50000

\* mongoose.connection.readyState: 0 disconnected, 1 connected, 2 connecting,
\* 3 disconnecting.  The code only asks whether it is 1.
Connected == 1

Users == {"u1", "u2"}
\* request slots: one for the handlers that write, one for a GET
\* /api/analytics/stats that runs beside them
Reqs == {1}
StatReqs == {2}
Slots == Reqs \cup StatReqs

NULL == <<-9, 0>>
EMPTYSTR == <<-8, 0>>
ClientJunkId == <<-2, 0>>
\* a JavaScript number n is <<n>> (in hundredths), NaN is <<>>
Num(n) == <<n>>
NaN == <<>>

Falsy(c) == c \in {NULL, EMPTYSTR}
IsObjectId(id) == id[1] = -1

\* ----------------------------------------------------------- sequences
Range(s) == {s[i] : i \in 1..Len(s)}

Take(s, n) == IF Len(s) <= n THEN s ELSE SubSeq(s, 1, n)

\* Map.has / Map.get / Map.set / Map.delete of a JavaScript Map kept in
\* insertion order: set on a present key replaces the value in place.
MapHas(m, id) == \E i \in 1..Len(m) : m[i].id = id

MapGet(m, id) == m[CHOOSE i \in 1..Len(m) : m[i].id = id]

MapSet(m, id, row) ==
  IF MapHas(m, id)
    THEN [i \in 1..Len(m) |-> IF m[i].id = id THEN row ELSE m[i]]
    ELSE Append(m, row)

MapDelete(m, id) == SelectSeq(m, LAMBDA x : x.id # id)

\* ---------------------------------------------------------------- dates
\* The dates the requests use, in lexical (= chronological) order.
DateList == <<"2024-03-15", "2024-04-01">>
Dates == Range(DateList)
DateRank(d) == CHOOSE i \in 1..Len(DateList) : DateList[i] = d

\* Array.prototype.sort with a comparator on an integer key: stable.
\* Desc: (a, b) => K(b) - K(a).  Asc: (a, b) => K(a) - K(b).
StableSortDesc(s, K(_)) ==
  LET n == Len(s)
      pos(i) == 1 + Cardinality({j \in 1..n : K(s[j]) > K(s[i])})
                  + Cardinality({j \in 1..(i - 1) : K(s[j]) = K(s[i])})
  IN  IF n <= 1 THEN s
      ELSE [p \in 1..n |-> s[CHOOSE i \in 1..n : pos(i) = p]]

StableSortAsc(s, K(_)) ==
  LET n == Len(s)
      pos(i) == 1 + Cardinality({j \in 1..n : K(s[j]) < K(s[i])})
                  + Cardinality({j \in 1..(i - 1) : K(s[j]) = K(s[i])})
  IN  IF n <= 1 THEN s
      ELSE [p \in 1..n |-> s[CHOOSE i \in 1..n : pos(i) = p]]

ByDate(row) == DateRank(row.date)
ByCreatedAt(row) == row.createdAt

\* -------------------------------------------------------------- amounts
\* parseFloat on the amount strings the requests send (characters as a
\* sequence): optional sign, digits, optional '.', digits; NaN when no digit
\* leads.  The value is in hundredths.
Digits == <<"0", "1", "2", "3", "4", "5", "6", "7", "8", "9">>
IsDigit(c) == \E i \in 1..10 : Digits[i] = c
DigitVal(c) == (CHOOSE i \in 1..10 : Digits[i] = c) - 1

RECURSIVE IntPart(_, _)
IntPart(cs, acc) ==
  IF cs # <<>> /\ IsDigit(Head(cs))
    THEN IntPart(Tail(cs), 10 * acc + DigitVal(Head(cs)))
    ELSE <<acc, cs>>

FracPart(cs) ==
  IF cs # <<>> /\ Head(cs) = "."
    THEN LET f == Tail(cs)
             d1 == IF Len(f) >= 1 /\ IsDigit(f[1]) THEN DigitVal(f[1]) ELSE 0
             d2 == IF Len(f) >= 2 /\ IsDigit(f[1]) /\ IsDigit(f[2])
                     THEN DigitVal(f[2]) ELSE 0
         IN  10 * d1 + d2
    ELSE 0

parseFloat(cs) ==
  LET neg  == cs # <<>> /\ Head(cs) = "-"
      body == IF cs # <<>> /\ Head(cs) \in {"-", "+"} THEN Tail(cs) ELSE cs
      ip   == IntPart(body, 0)
      lead == body # <<>> /\
                (IsDigit(Head(body)) \/
                 (Head(body) = "." /\ Len(body) >= 2 /\ IsDigit(body[2])))
      mag  == 100 * ip[1] + FracPart(ip[2])
  IN  IF ~lead THEN NaN ELSE IF neg THEN Num(0 - mag) ELSE Num(mag)

Amt250_50 == <<"2", "5", "0", ".", "5", "0">>
Amt10 == <<"1", "0">>

\* ----------------------------------------------------------- categories
defaultCategories ==
  << [name |-> "Food & Dining",     color |-> "#ef4444"],
     [name |-> "Transportation",    color |-> "#3b82f6"],
     [name |-> "Shopping",          color |-> "#10b981"],
     [name |-> "Entertainment",     color |-> "#f59e0b"],
     [name |-> "Bills & Utilities", color |-> "#8b5cf6"],
     [name |-> "Healthcare",        color |-> "#ec4899"],
     [name |-> "Education",         color |-> "#06b6d4"],
     [name |-> "Travel",            color |-> "#84cc16"] >>

NDefaults == Len(defaultCategories)

\* cat.name.toLowerCase().includes(answer.toLowerCase()) on the names and
\* categorizer answers of the model.
NameIncludes(name, answer) ==
  <<name, answer>> \in
    { <<"Food & Dining", "food">>, <<"Transportation", "transportation">>,
      <<"Shopping", "shopping">>, <<"Entertainment", "entertainment">>,
      <<"Bills & Utilities", "bills">>, <<"Healthcare", "healthcare">>,
      <<"Education", "education">>, <<"Travel", "travel">> }

\* Array.prototype.find: the first match, or NULL.
FindCategory(cats, answer) ==
  LET hits == {i \in 1..Len(cats) : NameIncludes(cats[i].name, answer)}
  IN  IF hits = {} THEN NULL
      ELSE cats[CHOOSE i \in hits : \A j \in hits : i <= j].id

\* custom category names the requests use, and the order of all names
\* (CategoryModel.find().sort({ name: 1 }))
NameList == << "Bills & Utilities", "Education", "Entertainment",
               "Food & Dining", "Healthcare", "Misc", "Shopping",
               "Transportation", "Travel" >>
ByName(row) == CHOOSE i \in 1..Len(NameList) : NameList[i] = row.name

\* ------------------------------------------------------ a backend's data
\* gen: the tag of the ids this store hands out; nextId: the next fresh
\* token.  createdAt is the value of nextId when the handler turn began
\* (rows created in one turn share a timestamp, later turns are later).
EmptyStore(g) ==
  [ gen |-> g, nextId |-> NDefaults + 1,
    users |-> <<>>, categories |-> <<>>, expenses |-> <<>>,
    insights |-> <<>>, budgets |-> <<>>, userProfiles |-> <<>> ]


Ret(s, out, err) == [s |-> s, out |-> out, err |-> err]

\* ============================================================ MemStorage
\* Math.random().toString(36).substr(2, 9): nextId is the generator's next
\* output
generateId(s) == <<s.gen, s.nextId>>

\* constructor + initializeDefaultCategories
NewMemStorage ==
  [ EmptyStore(0) EXCEPT
      !.categories =
        [ i \in 1..NDefaults |->
            [ id |-> <<0, i>>, name |-> defaultCategories[i].name,
              color |-> defaultCategories[i].color, createdAt |-> 0,
              via |-> "mem" ] ] ]

Mem_createUser(s, username) ==
  LET id  == generateId(s)
      row == [id |-> id, username |-> username, createdAt |-> s.nextId,
              via |-> "mem"]
  IN  Ret([s EXCEPT !.users = MapSet(@, id, row), !.nextId = @ + 1], row, "")

Mem_getCategories(s) == s.categories

Mem_createCategory(s, category) ==
  LET id  == generateId(s)
      row == [id |-> id, name |-> category.name, color |-> category.color,
              createdAt |-> s.nextId, via |-> "mem"]
  IN  Ret([s EXCEPT !.categories = MapSet(@, id, row), !.nextId = @ + 1],
          row, "")

Mem_deleteCategory(s, id) ==
  Ret([s EXCEPT !.categories = MapDelete(@, id)], <<>>, "")

\* expense.categoryId ? this.categories.get(expense.categoryId) || null : null
\* (<<>> is null, <<c>> the category c)
Mem_withCategory(s, e) ==
  [ id |-> e.id, userId |-> e.userId, categoryId |-> e.categoryId,
    amount |-> e.amount, date |-> e.date, createdAt |-> e.createdAt,
    via |-> e.via,
    category |-> IF ~Falsy(e.categoryId) /\ MapHas(s.categories, e.categoryId)
                   THEN <<MapGet(s.categories, e.categoryId)>> ELSE <<>> ]

Mem_getExpensesByUser(s, userId, limit) ==
  LET userExpenses ==
        Take(StableSortDesc(SelectSeq(s.expenses,
                                      LAMBDA e : e.userId = userId), ByDate),
             limit)
  IN  [i \in 1..Len(userExpenses) |-> Mem_withCategory(s, userExpenses[i])]

\* a date-range read that does not look at the owner of a row
Mem_getExpensesByUserAndDateRange_anyUser(s, userId, startDate, endDate) ==
  LET userExpenses ==
        StableSortDesc(
          SelectSeq(s.expenses,
                    LAMBDA e : /\ DateRank(e.date) >= DateRank(startDate)
                               /\ DateRank(e.date) <= DateRank(endDate)),
          ByDate)
  IN  [i \in 1..Len(userExpenses) |-> Mem_withCategory(s, userExpenses[i])]

Mem_getExpensesByUserAndDateRange(s, userId, startDate, endDate) ==
  LET userExpenses ==
        StableSortDesc(
          SelectSeq(s.expenses,
                    LAMBDA e : /\ e.userId = userId
                               /\ DateRank(e.date) >= DateRank(startDate)
                               /\ DateRank(e.date) <= DateRank(endDate)),
          ByDate)
  IN  [i \in 1..Len(userExpenses) |-> Mem_withCategory(s, userExpenses[i])]

\* a create that returns the row without this.expenses.set(id, newExpense)
Mem_createExpense_unstored(s, expense, now) ==
  LET id  == generateId(s)
      row == [ id |-> id, userId |-> expense.userId,
               categoryId |-> expense.categoryId,
               amount |-> parseFloat(expense.amount),
               date |-> expense.date, createdAt |-> now, via |-> "mem" ]
  IN  Ret([s EXCEPT !.nextId = @ + 1], row, "")

Mem_createExpense(s, expense, now) ==
  LET id  == generateId(s)
      row == [ id |-> id, userId |-> expense.userId,
               categoryId |-> expense.categoryId,
               amount |-> parseFloat(expense.amount),
               date |-> expense.date, createdAt |-> now, via |-> "mem" ]
  IN  Ret([s EXCEPT !.expenses = MapSet(@, id, row), !.nextId = @ + 1],
          row, "")

\* an update that answers nothing for an id it does not hold
Mem_updateExpense_silent(s, id, patch) ==
  IF ~MapHas(s.expenses, id)
    THEN Ret(s, <<>>, "")
    ELSE
      LET existing == MapGet(s.expenses, id)
          updated ==
            [ existing EXCEPT
                !.amount = IF "amount" \in DOMAIN patch /\ patch.amount # <<>>
                             THEN parseFloat(patch.amount) ELSE @ ]
      IN  Ret([s EXCEPT !.expenses = MapSet(@, id, updated)], updated, "")

\* patch: a function on the fields the body carries
Mem_updateExpense(s, id, patch) ==
  IF ~MapHas(s.expenses, id)
    THEN Ret(s, <<>>, "Expense not found")
    ELSE
      LET existing == MapGet(s.expenses, id)
          updated ==
            [ existing EXCEPT
                !.categoryId = IF "categoryId" \in DOMAIN patch
                                 THEN patch.categoryId ELSE @,
                !.date = IF "date" \in DOMAIN patch THEN patch.date ELSE @,
                !.amount = IF "amount" \in DOMAIN patch /\ patch.amount # <<>>
                             THEN parseFloat(patch.amount) ELSE @ ]
      IN  Ret([s EXCEPT !.expenses = MapSet(@, id, updated)], updated, "")

Mem_deleteExpense(s, id) ==
  Ret([s EXCEPT !.expenses = MapDelete(@, id)], <<>>, "")

Mem_getInsightsByUser(s, userId) ==
  StableSortDesc(SelectSeq(s.insights, LAMBDA x : x.userId = userId),
                 ByCreatedAt)

Mem_createInsight(s, insight, now) ==
  LET id  == generateId(s)
      row == [ id |-> id, userId |-> insight.userId, type |-> insight.type,
               title |-> insight.title, priority |-> insight.priority,
               isRead |-> insight.isRead, createdAt |-> now, via |-> "mem" ]
  IN  Ret([s EXCEPT !.insights = MapSet(@, id, row), !.nextId = @ + 1],
          row, "")

Mem_markInsightAsRead(s, id) ==
  IF MapHas(s.insights, id)
    THEN Ret([s EXCEPT !.insights =
                MapSet(@, id, [MapGet(s.insights, id) EXCEPT !.isRead = "true"])],
             <<>>, "")
    ELSE Ret(s, <<>>, "")

Mem_clearUserInsights(s, userId) ==
  Ret([s EXCEPT !.insights = SelectSeq(@, LAMBDA x : x.userId # userId)],
      <<>>, "")

Mem_getBudgetsByUser(s, userId) ==
  StableSortDesc(SelectSeq(s.budgets, LAMBDA b : b.userId = userId),
                 ByCreatedAt)

Mem_createBudget(s, budget, now) ==
  LET id  == generateId(s)
      row == [ id |-> id, userId |-> budget.userId,
               categoryId |-> budget.categoryId,
               amount |-> parseFloat(budget.amount), period |-> budget.period,
               createdAt |-> now, via |-> "mem" ]
  IN  Ret([s EXCEPT !.budgets = MapSet(@, id, row), !.nextId = @ + 1],
          row, "")

Mem_deleteBudget(s, id) ==
  Ret([s EXCEPT !.budgets = MapDelete(@, id)], <<>>, "")

Mem_getUserProfile(s, userId) ==
  IF MapHas(s.userProfiles, userId)
    THEN <<MapGet(s.userProfiles, userId)>> ELSE <<>>

\* profile.monthlyIncome || existingProfile?.monthlyIncome || 50000
\* (0 stands for an absent or zero income: both are falsy)
Mem_updateUserProfile(s, userId, profile) ==
  LET existing == Mem_getUserProfile(s, userId)
      row == [ id |-> userId, userId |-> userId,
               monthlyIncome |->
                 IF profile.monthlyIncome # 0 THEN profile.monthlyIncome
                 ELSE IF existing # <<>> /\ existing[1].monthlyIncome # 0
                        THEN existing[1].monthlyIncome
                        ELSE DefaultMonthlyIncome,
               via |-> "mem" ]
  IN  Ret([s EXCEPT !.userProfiles = MapSet(@, userId, row)], row, "")


\* ========================================================== MongoStorage
\* s is the database; ok says whether the database answers this call.
\* A failed call rejects ("Unavailable"); findById* on a string that is
\* no ObjectId rejects with a CastError.
Mongo_createUser(s, username, ok) ==
  IF ~ok THEN Ret(s, <<>>, "Unavailable")
  ELSE LET row == [id |-> generateId(s), username |-> username,
                   createdAt |-> s.nextId, via |-> "mongo"]
       IN  Ret([s EXCEPT !.users = Append(@, row), !.nextId = @ + 1], row, "")

\* try { find().sort({ name: 1 }) } catch { return [] }
Mongo_getCategories(s, ok) ==
  IF ok THEN StableSortAsc(s.categories, ByName) ELSE <<>>

Mongo_createCategory(s, category, ok) ==
  IF ~ok THEN Ret(s, <<>>, "Unavailable")
  ELSE LET row == [id |-> generateId(s), name |-> category.name,
                   color |-> category.color, createdAt |-> s.nextId,
                   via |-> "mongo"]
       IN  Ret([s EXCEPT !.categories = Append(@, row), !.nextId = @ + 1],
               row, "")

\* a delete that takes the expenses of the category with it
Mongo_deleteCategory_cascade(s, id, ok) ==
  IF ~ok THEN Ret(s, <<>>, "Unavailable")
  ELSE IF ~IsObjectId(id) THEN Ret(s, <<>>, "CastError")
  ELSE Ret([s EXCEPT !.categories = MapDelete(@, id),
                     !.expenses = SelectSeq(@, LAMBDA e : e.categoryId # id)],
           <<>>, "")

Mongo_deleteCategory(s, id, ok) ==
  IF ~ok THEN Ret(s, <<>>, "Unavailable")
  ELSE IF ~IsObjectId(id) THEN Ret(s, <<>>, "CastError")
  ELSE Ret([s EXCEPT !.categories = MapDelete(@, id)], <<>>, "")

\* if (expense.categoryId) { cat = await CategoryModel.findById(...) }
Mongo_withCategory(s, e) ==
  [ id |-> e.id, userId |-> e.userId, categoryId |-> e.categoryId,
    amount |-> e.amount, date |-> e.date, createdAt |-> e.createdAt,
    via |-> e.via,
    category |-> IF ~Falsy(e.categoryId) /\ MapHas(s.categories, e.categoryId)
                   THEN <<MapGet(s.categories, e.categoryId)>> ELSE <<>> ]

Mongo_lookupFails(rows) ==
  \E i \in 1..Len(rows) :
     ~Falsy(rows[i].categoryId) /\ ~IsObjectId(rows[i].categoryId)

\* find({ userId }).sort({ date: -1, createdAt: -1 }).limit(limit)
Mongo_getExpensesByUser(s, userId, limit, ok) ==
  LET expenses ==
        Take(StableSortDesc(
               StableSortDesc(SelectSeq(s.expenses,
                                        LAMBDA e : e.userId = userId),
                              ByCreatedAt),
               ByDate),
             limit)
  IN  IF ~ok THEN Ret(s, <<>>, "Unavailable")
      ELSE IF Mongo_lookupFails(expenses) THEN Ret(s, <<>>, "CastError")
      ELSE Ret(s, [i \in 1..Len(expenses) |-> Mongo_withCategory(s, expenses[i])],
               "")

Mongo_getExpensesByUserAndDateRange(s, userId, startDate, endDate, ok) ==
  LET expenses ==
        StableSortDesc(
          StableSortDesc(
            SelectSeq(s.expenses,
                      LAMBDA e : /\ e.userId = userId
                                 /\ DateRank(e.date) >= DateRank(startDate)
                                 /\ DateRank(e.date) <= DateRank(endDate)),
            ByCreatedAt),
          ByDate)
  IN  IF ~ok THEN Ret(s, <<>>, "Unavailable")
      ELSE IF Mongo_lookupFails(expenses) THEN Ret(s, <<>>, "CastError")
      ELSE Ret(s, [i \in 1..Len(expenses) |-> Mongo_withCategory(s, expenses[i])],
               "")

\* amount: { type: Number, required: true }: NaN is a validation error
Mongo_createExpense(s, expense, now, ok) ==
  IF ~ok THEN Ret(s, <<>>, "Unavailable")
  ELSE IF parseFloat(expense.amount) = NaN THEN Ret(s, <<>>, "CastError")
  ELSE LET row == [ id |-> generateId(s), userId |-> expense.userId,
                    categoryId |-> expense.categoryId,
                    amount |-> parseFloat(expense.amount),
                    date |-> expense.date, createdAt |-> now,
                    via |-> "mongo" ]
       IN  Ret([s EXCEPT !.expenses = Append(@, row), !.nextId = @ + 1],
               row, "")

\* findByIdAndUpdate(id, updateData, { new: true }); null -> throw
Mongo_updateExpense(s, id, patch, ok) ==
  IF ~ok THEN Ret(s, <<>>, "Unavailable")
  ELSE IF ~IsObjectId(id) THEN Ret(s, <<>>, "CastError")
  ELSE IF "amount" \in DOMAIN patch /\ parseFloat(patch.amount) = NaN
    THEN Ret(s, <<>>, "CastError")
  ELSE IF ~MapHas(s.expenses, id) THEN Ret(s, <<>>, "Expense not found")
  ELSE
    LET existing == MapGet(s.expenses, id)
        updated ==
          [ existing EXCEPT
              !.categoryId = IF "categoryId" \in DOMAIN patch
                               THEN patch.categoryId ELSE @,
              !.date = IF "date" \in DOMAIN patch THEN patch.date ELSE @,
              !.amount = IF "amount" \in DOMAIN patch /\ patch.amount # <<>>
                           THEN parseFloat(patch.amount) ELSE @ ]
    IN  Ret([s EXCEPT !.expenses = MapSet(@, id, updated)], updated, "")

\* findByIdAndDelete(id): no document is no error
Mongo_deleteExpense(s, id, ok) ==
  IF ~ok THEN Ret(s, <<>>, "Unavailable")
  ELSE IF ~IsObjectId(id) THEN Ret(s, <<>>, "CastError")
  ELSE Ret([s EXCEPT !.expenses = MapDelete(@, id)], <<>>, "")

Mongo_getInsightsByUser(s, userId, ok) ==
  IF ~ok THEN Ret(s, <<>>, "Unavailable")
  ELSE Ret(s, StableSortDesc(SelectSeq(s.insights,
                                       LAMBDA x : x.userId = userId),
                             ByCreatedAt), "")

Mongo_createInsight(s, insight, now, ok) ==
  IF ~ok THEN Ret(s, <<>>, "Unavailable")
  ELSE LET row == [ id |-> generateId(s), userId |-> insight.userId,
                    type |-> insight.type, title |-> insight.title,
                    priority |-> insight.priority,
                    isRead |-> insight.isRead, createdAt |-> now,
                    via |-> "mongo" ]
       IN  Ret([s EXCEPT !.insights = Append(@, row), !.nextId = @ + 1],
               row, "")

Mongo_markInsightAsRead(s, id, ok) ==
  IF ~ok THEN Ret(s, <<>>, "Unavailable")
  ELSE IF ~IsObjectId(id) THEN Ret(s, <<>>, "CastError")
  ELSE IF MapHas(s.insights, id)
    THEN Ret([s EXCEPT !.insights =
                MapSet(@, id, [MapGet(s.insights, id) EXCEPT !.isRead = "true"])],
             <<>>, "")
    ELSE Ret(s, <<>>, "")

Mongo_clearUserInsights(s, userId, ok) ==
  IF ~ok THEN Ret(s, <<>>, "Unavailable")
  ELSE Ret([s EXCEPT !.insights = SelectSeq(@, LAMBDA x : x.userId # userId)],
           <<>>, "")

Mongo_getBudgetsByUser(s, userId, ok) ==
  IF ~ok THEN Ret(s, <<>>, "Unavailable")
  ELSE Ret(s, StableSortDesc(SelectSeq(s.budgets,
                                       LAMBDA b : b.userId = userId),
                             ByCreatedAt), "")

Mongo_createBudget(s, budget, now, ok) ==
  IF ~ok THEN Ret(s, <<>>, "Unavailable")
  ELSE IF parseFloat(budget.amount) = NaN THEN Ret(s, <<>>, "CastError")
  ELSE LET row == [ id |-> generateId(s), userId |-> budget.userId,
                    categoryId |-> budget.categoryId,
                    amount |-> parseFloat(budget.amount),
                    period |-> budget.period, createdAt |-> now,
                    via |-> "mongo" ]
       IN  Ret([s EXCEPT !.budgets = Append(@, row), !.nextId = @ + 1],
               row, "")

Mongo_deleteBudget(s, id, ok) ==
  IF ~ok THEN Ret(s, <<>>, "Unavailable")
  ELSE IF ~IsObjectId(id) THEN Ret(s, <<>>, "CastError")
  ELSE Ret([s EXCEPT !.budgets = MapDelete(@, id)], <<>>, "")

\* try { findOne({ userId }) } catch { return undefined }
Mongo_getUserProfile(s, userId, ok) ==
  LET hits == SelectSeq(s.userProfiles, LAMBDA p : p.userId = userId)
  IN  IF ok /\ hits # <<>> THEN <<hits[1]>> ELSE <<>>

\* findOneAndUpdate({ userId }, { monthlyIncome: income || 50000, ... },
\*                  { upsert: true, new: true })
Mongo_updateUserProfile(s, userId, profile, ok) ==
  LET hits == SelectSeq(s.userProfiles, LAMBDA p : p.userId = userId)
      income == IF profile.monthlyIncome # 0 THEN profile.monthlyIncome
                ELSE DefaultMonthlyIncome
  IN  IF ~ok THEN Ret(s, <<>>, "Unavailable")
      ELSE IF hits # <<>>
        THEN LET row == [hits[1] EXCEPT !.monthlyIncome = income]
             IN  Ret([s EXCEPT !.userProfiles = MapSet(@, row.id, row)], row, "")
        ELSE LET row == [ id |-> generateId(s), userId |-> userId,
                          monthlyIncome |-> income, via |-> "mongo" ]
             IN  Ret([s EXCEPT !.userProfiles = Append(@, row),
                               !.nextId = @ + 1], row, "")


\* -------------------------------------------------------- getExpenseStats
\* a + b on JavaScript numbers
AddAmt(a, b) == IF a = NaN \/ b = NaN THEN NaN ELSE Num(a[1] + b[1])

\* rows.reduce((sum, row) => sum + row.amount, 0)
RECURSIVE SumAmt(_)
SumAmt(rows) ==
  IF rows = <<>> THEN Num(0)
  ELSE AddAmt(SumAmt(SubSeq(rows, 1, Len(rows) - 1)), rows[Len(rows)].amount)

\* the sort key of an amount (the requests of the model send no amount that
\* parses to NaN into a sorted list)
AmtKey(row) == IF row.amount = NaN THEN 0 ELSE row.amount[1]

\* the key 'uncategorized' of categoryMap, the _id null of $group
UNCAT == <<-7, 0>>

\* the keys of a Map filled by forEach, in insertion order
FirstKeys(rows, K(_)) ==
  LET n == Len(rows)
      first == {i \in 1..n : \A j \in 1..(i - 1) : K(rows[j]) # K(rows[i])}
      nth(p) == CHOOSE i \in first :
                  Cardinality({j \in first : j < i}) = p - 1
  IN  [p \in 1..Cardinality(first) |-> K(rows[nth(p)])]

Mem_categoryKey(e) == IF Falsy(e.categoryId) THEN UNCAT ELSE e.categoryId
DateKey(e) == DateRank(e.date)

Mem_getExpenseStats(s, userId, startDate, endDate) ==
  LET expenses == Mem_getExpensesByUserAndDateRange(s, userId, startDate,
                                                    endDate)
      catKeys == FirstKeys(expenses, Mem_categoryKey)
      categoryMap ==
        [ p \in 1..Len(catKeys) |->
            LET mine == SelectSeq(expenses,
                                  LAMBDA e : Mem_categoryKey(e) = catKeys[p])
            IN  [ categoryName |-> IF mine[1].category # <<>>
                                     THEN mine[1].category[1].name
                                     ELSE "Uncategorized",
                  color |-> IF mine[1].category # <<>>
                              THEN mine[1].category[1].color ELSE "#6b7280",
                  amount |-> SumAmt(mine) ] ]
      dayKeys == FirstKeys(expenses, DateKey)
      dailyMap ==
        [ p \in 1..Len(dayKeys) |->
            [ date |-> DateList[dayKeys[p]],
              amount |-> SumAmt(SelectSeq(expenses,
                                  LAMBDA e : DateKey(e) = dayKeys[p])) ] ]
  IN  [ totalSpent |-> SumAmt(expenses),
        categoryBreakdown |-> StableSortDesc(categoryMap, AmtKey),
        dailyTrend |-> StableSortAsc(dailyMap, DateKey) ]

\* $group by "$categoryId": a missing categoryId groups under null
Mongo_categoryKey(e) == IF e.categoryId = NULL THEN UNCAT ELSE e.categoryId

\* $match { userId, date: { $gte: startDate, $lte: endDate } }
Mongo_match(s, userId, startDate, endDate) ==
  SelectSeq(s.expenses,
            LAMBDA e : /\ e.userId = userId
                       /\ DateRank(e.date) >= DateRank(startDate)
                       /\ DateRank(e.date) <= DateRank(endDate))

\* a total over every date of the user
Mongo_aggTotal_allDates(s, userId, startDate, endDate) ==
  LET matched == SelectSeq(s.expenses, LAMBDA e : e.userId = userId)
      total == SumAmt(matched)
  IN  IF matched = <<>> \/ total \in {NaN, Num(0)} THEN Num(0) ELSE total

\* first aggregation, $group { _id: null, total: { $sum: "$amount" } }, and
\* totalResult[0]?.total || 0
Mongo_aggTotal(s, userId, startDate, endDate) ==
  LET matched == Mongo_match(s, userId, startDate, endDate)
      total == SumAmt(matched)
  IN  IF matched = <<>> \/ total \in {NaN, Num(0)} THEN Num(0) ELSE total

\* second aggregation, $group { _id: "$categoryId" }, $sort { amount: -1 }.
\* The order MongoDB gives equal $sort keys is not specified; the model
\* lists them in the order of first occurrence.
Mongo_aggCategories(s, userId, startDate, endDate) ==
  LET matched == Mongo_match(s, userId, startDate, endDate)
      catKeys == FirstKeys(matched, Mongo_categoryKey)
  IN  StableSortDesc(
        [ p \in 1..Len(catKeys) |->
            [ id |-> catKeys[p],
              amount |-> SumAmt(SelectSeq(matched,
                           LAMBDA e : Mongo_categoryKey(e) = catKeys[p])) ] ],
        AmtKey)

\* if (item._id): null and '' are falsy
Mongo_needsLookup(id) == id # UNCAT /\ ~Falsy(id)

\* the entry pushed for one item of categoryResult; found is the category
\* CategoryModel.findById gave (<<>>: none, or no lookup made)
Mongo_breakdownEntry(item, found) ==
  [ categoryName |-> IF found # <<>> THEN found[1].name ELSE "Uncategorized",
    color |-> IF found # <<>> THEN found[1].color ELSE "#6b7280",
    amount |-> item.amount ]

\* CategoryModel.findById(id).lean()
Mongo_findCategory(s, id) ==
  IF MapHas(s.categories, id) THEN <<MapGet(s.categories, id)>> ELSE <<>>

\* a daily trend with one entry per expense
Mongo_aggDaily_perExpense(s, userId, startDate, endDate) ==
  LET matched == Mongo_match(s, userId, startDate, endDate)
  IN  StableSortAsc([ p \in 1..Len(matched) |->
                        [ date |-> matched[p].date,
                          amount |-> matched[p].amount ] ],
                    DateKey)

\* third aggregation, $group { _id: "$date" }, $sort { _id: 1 }
Mongo_aggDaily(s, userId, startDate, endDate) ==
  LET matched == Mongo_match(s, userId, startDate, endDate)
      dayKeys == FirstKeys(matched, DateKey)
  IN  StableSortAsc(
        [ p \in 1..Len(dayKeys) |->
            [ date |-> DateList[dayKeys[p]],
              amount |-> SumAmt(SelectSeq(matched,
                           LAMBDA e : DateKey(e) = dayKeys[p])) ] ],
        DateKey)

\* getExpenseStats on a database no one writes to meanwhile: the three
\* aggregations and the lookups see the same rows
Mongo_getExpenseStats(s, userId, startDate, endDate, ok) ==
  LET categoryResult == Mongo_aggCategories(s, userId, startDate, endDate)
      lookupFails ==
        \E p \in 1..Len(categoryResult) :
           Mongo_needsLookup(categoryResult[p].id)
             /\ ~IsObjectId(categoryResult[p].id)
      categoryBreakdown ==
        [ p \in 1..Len(categoryResult) |->
            Mongo_breakdownEntry(categoryResult[p],
              IF Mongo_needsLookup(categoryResult[p].id)
                THEN Mongo_findCategory(s, categoryResult[p].id)
                ELSE <<>>) ]
  IN  IF ~ok THEN Ret(s, <<>>, "Unavailable")
      ELSE IF lookupFails THEN Ret(s, <<>>, "CastError")
      ELSE Ret(s, [ totalSpent |-> Mongo_aggTotal(s, userId, startDate,
                                                  endDate),
                    categoryBreakdown |-> categoryBreakdown,
                    dailyTrend |-> Mongo_aggDaily(s, userId, startDate,
                                                  endDate) ], "")


\* ================================================================= state
VARIABLES
  storage,       \* the exported binding: [kind, inst] of the active backend
  readyState,    \* mongoose.connection.readyState
  firstPending,  \* setTimeout(attemptMongoUpgrade, 100) has not fired
  intervalOn,    \* retryInterval is set and not cleared
  stopPending,   \* setTimeout(() => clearInterval(...), 30000) has not fired
  pollHit,       \* ghost: some polling attempt has returned true
  mem,           \* the data of the MemStorage instance last constructed
  db,            \* the database behind every MongoStorage instance
  reqs,          \* the requests in flight, one record per slot
  resp,          \* the last response sent
  wss,           \* the WebSocket server: registry, sockets, what was sent
  hook           \* the client's useWebSocket hook: refs, sockets, timers

vars == << storage, readyState, firstPending, intervalOn, stopPending,
           pollHit, mem, db, reqs, resp, wss, hook >>

socketVars == << wss, hook >>

lifecycleVars == << storage, readyState, firstPending, intervalOn,
                    stopPending, pollHit >>
timerVars == << firstPending, intervalOn, stopPending, pollHit >>

Idle ==
  [ pc |-> "idle", route |-> "", user |-> "", body |-> <<>>,
    startInst |-> -1, offStart |-> FALSE, kinds |-> {},
    answer |-> "", catId |-> NULL, ai |-> <<>>, range |-> <<>>,
    acc |-> <<>> ]

\* err: the rejection of the storage call, target: whether the id of an
\* update or delete was in its collection when the call ran (ghost)
\* mixed: the calls of the request went to backends of two kinds (ghost)
NoResp ==
  [ route |-> "", status |-> 0, body |-> <<>>, err |-> "", target |-> "",
    mixed |-> FALSE ]

\* ---- the WebSocket server (server/websocket.ts)
\* the connections the model lets in, and the caps on what is sent and on
\* the sockets the client hook opens
Conns == {1, 2}
MaxMessages == 3
MaxSockets == 5

\* setupWebSocket(): clients = new Set().  state: the readyState of the
\* server's socket of a connection ("none": not accepted yet); inbox: the
\* types of the messages sent to it, in order; live and sends are ghosts:
\* the connections accepted and not yet closed or errored, and the number of
\* broadcast calls.
NewWss ==
  [ clients |-> {}, state |-> [c \in Conns |-> "none"],
    inbox |-> [c \in Conns |-> <<>>], live |-> {}, sends |-> 0 ]

\* ---- the client hook (client/src/hooks/useWebSocket.ts)
\* wsRef / timeoutRef: the two refs (0 is null; a socket number; the number
\* of the socket whose onclose armed the timer).  sock: the readyState of
\* every socket the hook has constructed.  timers: the reconnect timers
\* that are armed.  phase: before the mount effect, mounted, cleaned up.
\* stopped and opened are ghosts: disconnect() has run, and the sockets
\* constructed since.
NewHook ==
  [ phase |-> "initial", wsRef |-> 0, timeoutRef |-> 0,
    sock |-> [k \in 1..MaxSockets |-> "none"], timers |-> {},
    stopped |-> FALSE, opened |-> 0 ]

\* new MemStorage() / new MongoStorage(): the reference to a new instance
NewRef(kind, n) == [kind |-> kind, inst |-> n]

\* ---- bootstrap (routes.ts): registerRoutes awaits
\* initializeDefaultCategories() once, in the first turn of the process,
\* when the binding is the MemStorage that initializeStorage constructed.
RECURSIVE Mem_createCategories(_, _)
Mem_createCategories(s, cats) ==
  IF cats = <<>> THEN s
  ELSE Mem_createCategories(Mem_createCategory(s, Head(cats)).s, Tail(cats))

\* if (existingCategories.length === 0) for (...) await createCategory(...)
initializeDefaultCategories(s) ==
  IF Len(Mem_getCategories(s)) = 0
    THEN Mem_createCategories(s, defaultCategories) ELSE s

\* a start that binds the document backend before any check has run
Init_startsOnMongo ==
  /\ storage = NewRef("mongo", 0)
  /\ readyState = 2
  /\ firstPending = TRUE
  /\ intervalOn = TRUE
  /\ stopPending = TRUE
  /\ pollHit = FALSE
  /\ mem = NewMemStorage
  /\ db = EmptyStore(-1)
  /\ reqs = [r \in Slots |-> Idle]
  /\ resp = NoResp
  /\ wss = NewWss
  /\ hook = NewHook

\* initializeStorage(): storage = new MemStorage(), three timers armed, the
\* two listeners registered, connectDB() under way (readyState 2), and the
\* bootstrap of registerRoutes done.  The database starts with no rows.
Init ==
  /\ storage = NewRef("mem", 0)
  /\ readyState = 2
  /\ firstPending = TRUE
  /\ intervalOn = TRUE
  /\ stopPending = TRUE
  /\ pollHit = FALSE
  /\ mem = initializeDefaultCategories(NewMemStorage)
  /\ db = EmptyStore(-1)
  /\ reqs = [r \in Slots |-> Idle]
  /\ resp = NoResp
  /\ wss = NewWss
  /\ hook = NewHook

\* the ids a store has handed out, and the cap on them
Created(s) == s.nextId - (NDefaults + 1)
CanCreate(k, cap) == Created(mem) + Created(db) + k <= cap

\* ------------------------------------------------------ storage selector
\* an attempt that binds the document backend without looking at the
\* connection
attemptMongoUpgrade_unchecked(st, rs, n) ==
  [storage |-> NewRef("mongo", n), ret |-> TRUE]

\* attemptMongoUpgrade: the binding after the call, and its return value
attemptMongoUpgrade(st, rs, n) ==
  IF rs = Connected
    THEN [storage |-> NewRef("mongo", n), ret |-> TRUE]
    ELSE [storage |-> st, ret |-> FALSE]

\* a 'connected' listener that leaves the binding alone
onConnected_ignoresEvent(st, n) == st

\* the 'connected' listener
onConnected(st, n) ==
  IF st.kind # "mongo" THEN NewRef("mongo", n) ELSE st

\* the 'disconnected' listener
onDisconnected(st, n) ==
  IF st.kind # "mem" THEN NewRef("mem", n) ELSE st

\* a swap back that takes up the data of the earlier in-memory instance
SwapMem_keepsOldRows(old, new, m) == m

\* the data the binding reaches after a swap: a new MemStorage starts from
\* its constructor, a MongoStorage holds no data of its own
SwapMem(old, new, m) ==
  IF new.kind = "mem" /\ new # old THEN NewMemStorage ELSE m

\* an upgrade that copies the expenses of the in-memory instance over
SwapDb_migrates(old, new, m, d) ==
  IF old.kind = "mem" /\ new.kind = "mongo"
    THEN [d EXCEPT !.expenses = @ \o m.expenses]
    ELSE d

\* the database after a swap: new MongoStorage() copies nothing into it
SwapDb(old, new, m, d) == d

Swap(new) ==
  /\ storage' = new
  /\ mem' = SwapMem(storage, new, mem)
  /\ db' = SwapDb(storage, new, mem, db)

\* the instance numbers something still refers to, and a number free for
\* the next instance
InstInUse == {storage.inst} \cup {reqs[r].startInst : r \in Slots}
FreshInst ==
  CHOOSE i \in 0..Cardinality(InstInUse) :
    i \notin InstInUse /\ \A j \in 0..(i - 1) : j \in InstInUse

\* setTimeout(attemptMongoUpgrade, 100): the return value is dropped
FirstAttempt ==
  /\ firstPending
  /\ LET a == attemptMongoUpgrade(storage, readyState, FreshInst)
     IN  /\ Swap(a.storage)
         /\ pollHit' = (pollHit \/ a.ret)
  /\ firstPending' = FALSE
  /\ UNCHANGED << readyState, intervalOn, stopPending, reqs, resp, socketVars >>

\* setInterval(() => { if (attemptMongoUpgrade()) clearInterval(...) }, 2000)
IntervalTick ==
  /\ intervalOn /\ ~firstPending
  /\ LET a == attemptMongoUpgrade(storage, readyState, FreshInst)
     IN  /\ Swap(a.storage)
         /\ pollHit' = (pollHit \/ a.ret)
         /\ intervalOn' = ~a.ret
  /\ UNCHANGED << readyState, firstPending, stopPending, reqs, resp,
                  socketVars >>

\* a stop timer that leaves the interval running
StopRetry_keepsPolling ==
  /\ stopPending /\ ~firstPending
  /\ stopPending' = FALSE
  /\ UNCHANGED << storage, readyState, firstPending, intervalOn, pollHit, mem,
                  db, reqs, resp, socketVars >>

\* setTimeout(() => clearInterval(retryInterval), 30000)
StopRetry ==
  /\ stopPending /\ ~firstPending
  /\ stopPending' = FALSE
  /\ intervalOn' = FALSE
  /\ UNCHANGED << storage, readyState, firstPending, pollHit, mem, db, reqs,
                  resp, socketVars >>

\* the driver reaches the database and emits 'connected'
DriverConnected ==
  /\ readyState # Connected
  /\ readyState' = Connected
  /\ Swap(onConnected(storage, FreshInst))
  /\ UNCHANGED << timerVars, reqs, resp, socketVars >>

\* the driver loses the database, or an attempt fails, and emits
\* 'disconnected'
DriverDisconnected ==
  /\ readyState # 0
  /\ readyState' = 0
  /\ Swap(onDisconnected(storage, FreshInst))
  /\ UNCHANGED << timerVars, reqs, resp, socketVars >>

Lifecycle ==
  \/ FirstAttempt
  \/ IntervalTick
  \/ StopRetry
  \/ DriverConnected
  \/ DriverDisconnected

\* ============================================================ the routes
\* What the requests of the model send.
ReqUsers == {"u1"}
ExpenseBodies ==
  { [categoryId |-> NULL, amount |-> Amt250_50, date |-> "2024-03-15"] }
AiAnswers == {"transportation", "other"}
\* the list generateInsights returns from its catch block (the descriptions
\* are left out)
FallbackInsights ==
  << [ type |-> "recommendation", title |-> "Track Your Expenses",
       priority |-> "medium" ],
     [ type |-> "goal", title |-> "Building Financial Habits",
       priority |-> "low" ],
     [ type |-> "warning", title |-> "AI Insights Unavailable",
       priority |-> "low" ] >>
\* what generateInsights answers: the fallback list, or what the AI sent
AiInsightLists == {FallbackInsights, <<>>}
ShortInsightLists ==
  { << [ type |-> "alert", title |-> "Food Budget Exceeded",
         priority |-> "high" ] >> }

\* ---- the AI services
\* What ai.models.generateContent does: kind "rejected" (the call throws),
\* "empty" (response.text is empty), "invalid" (JSON.parse throws) or "json"
\* (text that parses; the fields of the parsed object follow, "" and 0 for a
\* field that is missing).
AiFailures == {"rejected", "empty", "invalid"}

CategorizerReplies ==
  { [kind |-> k, category |-> "", confidence |-> 0, reasoning |-> ""] :
      k \in AiFailures }
  \cup
  { [ kind |-> "json", category |-> "transportation", confidence |-> 95,
      reasoning |-> "ride" ],
    [ kind |-> "json", category |-> "other", confidence |-> 150,
      reasoning |-> "" ] }

\* the value of the catch block of categorizeExpense (confidence in
\* hundredths)
FallbackCategorization ==
  [ category |-> "shopping", confidence |-> 10,
    reasoning |-> "Default categorization due to AI service error" ]

\* a categorizer that hands the failure on as an empty answer
categorizeExpense_noFallback(reply) ==
  [ category |-> reply.category, confidence |-> reply.confidence,
    reasoning |-> reply.reasoning ]

categorizeExpense(reply) ==
  IF reply.kind = "json"
    THEN [ category |-> IF reply.category # "" THEN reply.category
                        ELSE "shopping",
           confidence |->
             LET c == IF reply.confidence # 0 THEN reply.confidence ELSE 50
             IN  IF c > 100 THEN 100 ELSE IF c < 0 THEN 0 ELSE c,
           reasoning |-> IF reply.reasoning # "" THEN reply.reasoning
                         ELSE "AI categorization based on description" ]
    ELSE FallbackCategorization

InsightTypes == {"alert", "goal", "warning", "recommendation"}
InsightPriorities == {"low", "medium", "high"}

InsightReplies ==
  { [kind |-> k, insights |-> <<>>] : k \in AiFailures }
  \cup
  { [ kind |-> "json", insights |-> <<>> ],
    [ kind |-> "json",
      insights |-> << [type |-> "info", title |-> "", priority |-> "urgent"] >> ] }

\* (result.insights || []).map(...), or the fallback list of the catch block
generateInsights(reply) ==
  IF reply.kind = "json"
    THEN [ i \in 1..Len(reply.insights) |->
             LET insight == reply.insights[i]
             IN  [ type |-> IF insight.type \in InsightTypes
                              THEN insight.type ELSE "recommendation",
                   title |-> IF insight.title # "" THEN insight.title
                             ELSE "Financial Insight",
                   priority |-> IF insight.priority \in InsightPriorities
                                  THEN insight.priority ELSE "medium" ] ]
    ELSE FallbackInsights

\* whether the database answers a call: never while the connection is down
\* (bufferCommands: false), and a call may fail while it is up
DbAnswers == IF readyState = Connected THEN {TRUE, FALSE} ELSE {FALSE}

SetStore(kind, s) ==
  IF kind = "mem" THEN mem' = s /\ db' = db ELSE db' = s /\ mem' = mem

\* ghost bookkeeping of one storage.<method>() call: `storage` is read when
\* the call is made
Track(q) ==
  [ q EXCEPT !.offStart = @ \/ storage.inst # q.startInst,
             !.kinds = @ \cup {storage.kind} ]

Begin(route, u) ==
  [ Idle EXCEPT !.route = route, !.user = u, !.startInst = storage.inst ]

Answer(q, status, body, err, target) ==
  [ route |-> q.route, status |-> status, body |-> body, err |-> err,
    target |-> target, mixed |-> Cardinality(q.kinds) > 1 ]

\* res.json(...) / res.status(...).json(...): the handler is done
Reply(r, q, status, body, err, target) ==
  /\ resp' = Answer(q, status, body, err, target)
  /\ reqs' = [reqs EXCEPT ![r] = Idle]

Finish(r, q, status, body) == Reply(r, q, status, body, "", "")

Suspend(r, q, pc) ==
  /\ reqs' = [reqs EXCEPT ![r] = [q EXCEPT !.pc = pc]]
  /\ resp' = resp

\* ---- POST /api/expenses
\* storage.createExpense({...validatedData, categoryId, userId}) is called:
\* MemStorage answers in the same turn, MongoStorage suspends the handler.
PostExpense_callCreate(r, q0, cap) ==
  LET q == Track(q0)
      e == [ userId |-> q.user, categoryId |-> q.catId,
             amount |-> q.body.amount, date |-> q.body.date ]
  IN  IF storage.kind = "mem"
        THEN /\ CanCreate(1, cap)
             /\ LET c == Mem_createExpense(mem, e, mem.nextId)
                IN  /\ SetStore("mem", c.s)
                    /\ Finish(r, q, 200, <<c.out.id>>)
        ELSE /\ Suspend(r, q, "createExpense")
             /\ UNCHANGED << mem, db >>

\* body = <<>>: insertExpenseSchema.parse throws a ZodError
PostExpense_Start(r, u, body, cap) ==
  /\ reqs[r].pc = "idle"
  /\ LET q == [Begin("POST /api/expenses", u) EXCEPT !.body = body]
     IN  IF body = <<>>
           THEN Finish(r, q, 400, <<>>) /\ UNCHANGED << mem, db >>
         ELSE IF Falsy(body.categoryId)
           THEN Suspend(r, q, "categorizeExpense") /\ UNCHANGED << mem, db >>
         ELSE PostExpense_callCreate(r, [q EXCEPT !.catId = body.categoryId],
                                     cap)
  /\ UNCHANGED << lifecycleVars, socketVars >>

\* categorizeExpense has answered; storage.getCategories() is called
PostExpense_Categorized(r, answer, cap) ==
  /\ reqs[r].pc = "categorizeExpense"
  /\ LET q == Track([reqs[r] EXCEPT !.answer = answer])
     IN  IF storage.kind = "mem"
           THEN LET m == FindCategory(Mem_getCategories(mem), answer)
                IN  PostExpense_callCreate(r,
                      [q EXCEPT !.catId = IF m # NULL THEN m
                                          ELSE q.body.categoryId], cap)
           ELSE Suspend(r, q, "getCategories") /\ UNCHANGED << mem, db >>
  /\ UNCHANGED << lifecycleVars, socketVars >>

\* MongoStorage.getCategories has answered
PostExpense_GotCategories(r, ok, cap) ==
  /\ reqs[r].pc = "getCategories"
  /\ LET q == reqs[r]
         m == FindCategory(Mongo_getCategories(db, ok), q.answer)
     IN  PostExpense_callCreate(r,
           [q EXCEPT !.catId = IF m # NULL THEN m ELSE q.body.categoryId],
           cap)
  /\ UNCHANGED << lifecycleVars, socketVars >>

\* MongoStorage.createExpense has answered
PostExpense_Created(r, ok, cap) ==
  /\ reqs[r].pc = "createExpense"
  /\ ok => CanCreate(1, cap)
  /\ LET q == reqs[r]
         e == [ userId |-> q.user, categoryId |-> q.catId,
                amount |-> q.body.amount, date |-> q.body.date ]
         c == Mongo_createExpense(db, e, db.nextId, ok)
     IN  /\ SetStore("mongo", c.s)
         /\ IF c.err = "" THEN Finish(r, q, 200, <<c.out.id>>)
                          ELSE Reply(r, q, 500, <<>>, c.err, "")
  /\ UNCHANGED << lifecycleVars, socketVars >>

\* ---- POST /api/insights/generate
\* aiInsights.map(insight => storage.createInsight({...insight, userId,
\* isRead: "false"})) on MemStorage: every call runs in this turn
\* { ...insight, userId, isRead: "false" }
WithUser(insight, u) ==
  [ userId |-> u, type |-> insight.type, title |-> insight.title,
    priority |-> insight.priority, isRead |-> "false" ]

RECURSIVE Mem_createInsights(_, _, _, _)
Mem_createInsights(s, aiInsights, u, now) ==
  IF aiInsights = <<>> THEN Ret(s, <<>>, "")
  ELSE LET c == Mem_createInsight(s, WithUser(Head(aiInsights), u), now)
           rest == Mem_createInsights(c.s, Tail(aiInsights), u, now)
       IN  Ret(rest.s, <<c.out.id>> \o rest.out, "")

\* the same calls on MongoStorage: oks[i] says whether save i succeeds;
\* Promise.all rejects when one of them fails, the others still run
RECURSIVE Mongo_createInsights(_, _, _, _, _)
Mongo_createInsights(s, aiInsights, u, now, oks) ==
  IF aiInsights = <<>> THEN Ret(s, <<>>, "")
  ELSE LET c == Mongo_createInsight(s, WithUser(Head(aiInsights), u), now,
                                    Head(oks))
           rest == Mongo_createInsights(c.s, Tail(aiInsights), u, now,
                                        Tail(oks))
       IN  Ret(rest.s,
               IF c.err = "" THEN <<c.out.id>> \o rest.out ELSE rest.out,
               IF c.err # "" THEN c.err ELSE rest.err)

\* storage.getExpensesByUser(userId) is called
Generate_callList(r, q0) ==
  LET q == Track(q0)
  IN  IF storage.kind = "mem"
        THEN Suspend(r, q, "generateInsights")
        ELSE Suspend(r, q, "getExpensesByUser")

\* storage.clearUserInsights(userId) is called
Generate_Start(r, u) ==
  /\ reqs[r].pc = "idle"
  /\ LET q == Track(Begin("POST /api/insights/generate", u))
     IN  IF storage.kind = "mem"
           THEN /\ SetStore("mem", Mem_clearUserInsights(mem, u).s)
                /\ Generate_callList(r, q)
           ELSE /\ Suspend(r, q, "clearUserInsights")
                /\ UNCHANGED << mem, db >>
  /\ UNCHANGED << lifecycleVars, socketVars >>

\* MongoStorage.clearUserInsights has answered
Generate_Cleared(r, ok) ==
  /\ reqs[r].pc = "clearUserInsights"
  /\ LET q == reqs[r]
         c == Mongo_clearUserInsights(db, q.user, ok)
     IN  /\ SetStore("mongo", c.s)
         /\ IF c.err # "" THEN Reply(r, q, 500, <<>>, c.err, "")
                          ELSE Generate_callList(r, q)
  /\ UNCHANGED << lifecycleVars, socketVars >>

\* MongoStorage.getExpensesByUser has answered
Generate_Listed(r, ok) ==
  /\ reqs[r].pc = "getExpensesByUser"
  /\ LET q == reqs[r]
         c == Mongo_getExpensesByUser(db, q.user, DefaultLimit, ok)
     IN  IF c.err # "" THEN Reply(r, q, 500, <<>>, c.err, "")
                       ELSE Suspend(r, q, "generateInsights")
  /\ UNCHANGED << lifecycleVars, socketVars, mem, db >>

\* generateInsights has answered with the list ai; the createInsight calls
\* are made
Generate_Generated(r, ai, cap) ==
  /\ reqs[r].pc = "generateInsights"
  /\ LET q == IF ai = <<>> THEN reqs[r] ELSE Track(reqs[r])
     IN  IF storage.kind = "mem"
           THEN /\ CanCreate(Len(ai), cap)
                /\ LET c == Mem_createInsights(mem, ai, q.user, mem.nextId)
                   IN  SetStore("mem", c.s) /\ Finish(r, q, 200, c.out)
         ELSE IF ai = <<>>
           THEN Finish(r, q, 200, <<>>) /\ UNCHANGED << mem, db >>
         ELSE /\ Suspend(r, [q EXCEPT !.ai = ai], "createInsight")
              /\ UNCHANGED << mem, db >>
  /\ UNCHANGED << lifecycleVars, socketVars >>

\* every MongoStorage.createInsight has answered
Generate_Saved(r, oks, cap) ==
  /\ reqs[r].pc = "createInsight"
  /\ CanCreate(Len(reqs[r].ai), cap)
  /\ LET q == reqs[r]
         c == Mongo_createInsights(db, q.ai, q.user, db.nextId, oks)
     IN  /\ SetStore("mongo", c.s)
         /\ IF c.err = "" THEN Finish(r, q, 200, c.out)
                          ELSE Reply(r, q, 500, <<>>, c.err, "")
  /\ UNCHANGED << lifecycleVars, socketVars >>

\* the outcomes of the saves of one batch
SaveOutcomes(n) ==
  IF readyState = Connected
    THEN { [i \in 1..n |-> TRUE], [i \in 1..n |-> FALSE],
           [i \in 1..n |-> i # 1] }
    ELSE { [i \in 1..n |-> FALSE] }

PostInsightsGenerate(r, users, lists, cap) ==
  \/ \E u \in users : Generate_Start(r, u)
  \/ \E ok \in DbAnswers : Generate_Cleared(r, ok)
  \/ \E ok \in DbAnswers : Generate_Listed(r, ok)
  \/ \E ai \in lists : Generate_Generated(r, ai, cap)
  \/ \E oks \in SaveOutcomes(Len(reqs[r].ai)) : Generate_Saved(r, oks, cap)


PostExpense(r, users, bodies, cap) ==
  \/ \E u \in users, body \in bodies : PostExpense_Start(r, u, body, cap)
  \/ \E answer \in AiAnswers : PostExpense_Categorized(r, answer, cap)
  \/ \E ok \in DbAnswers : PostExpense_GotCategories(r, ok, cap)
  \/ \E ok \in DbAnswers : PostExpense_Created(r, ok, cap)

\* ---- routes that make one storage call.  On MongoStorage the handler is
\* suspended for the one round trip; the database applies the operation at
\* one instant, so the call and its answer are one action.
MissingObjectId == <<-1, 0>>
Active == IF storage.kind = "mem" THEN mem ELSE db
IdsSent(rows) == {rows[i].id : i \in 1..Len(rows)}
                   \cup {MissingObjectId, ClientJunkId}
Presence(rows, id) == IF MapHas(rows, id) THEN "present" ELSE "missing"

\* the category the client names is the first custom one of the database
StoreBodies ==
  { [ categoryId |-> <<-1, NDefaults + 1>>, amount |-> Amt250_50,
      date |-> "2024-03-15" ] }
Patches == { [amount |-> Amt10] }
BudgetBodies ==
  { [categoryId |-> NULL, amount |-> Amt10, period |-> "monthly"] }
CategoryBodies == { [name |-> "Misc", color |-> "#6b7280"] }

\* the answer of a route whose handler is try { await call; res.json }
\* catch { res.status(500) }
ReplyCall(r, q, c, body, target) ==
  /\ SetStore(storage.kind, c.s)
  /\ IF c.err = "" THEN Reply(r, q, 200, body, "", target)
                   ELSE Reply(r, q, 500, <<>>, c.err, target)

\* PUT /api/expenses/:id; valid = FALSE: the partial schema rejects the body
PutExpense(r, u, id, patch, valid, ok) ==
  /\ reqs[r].pc = "idle"
  /\ IF ~valid
       THEN /\ Reply(r, Begin("PUT /api/expenses/:id", u), 400, <<>>,
                     "ZodError", "")
            /\ UNCHANGED << mem, db >>
       ELSE LET q == Track(Begin("PUT /api/expenses/:id", u))
                c == IF storage.kind = "mem"
                       THEN Mem_updateExpense(mem, id, patch)
                       ELSE Mongo_updateExpense(db, id, patch, ok)
            IN  ReplyCall(r, q, c, <<id>>, Presence(Active.expenses, id))
  /\ UNCHANGED << lifecycleVars, socketVars >>

\* DELETE /api/expenses/:id
DeleteExpense(r, u, id, ok) ==
  /\ reqs[r].pc = "idle"
  /\ LET q == Track(Begin("DELETE /api/expenses/:id", u))
         c == IF storage.kind = "mem" THEN Mem_deleteExpense(mem, id)
              ELSE Mongo_deleteExpense(db, id, ok)
     IN  ReplyCall(r, q, c, <<>>, Presence(Active.expenses, id))
  /\ UNCHANGED << lifecycleVars, socketVars >>

\* POST /api/budgets
PostBudget(r, u, body, ok) ==
  /\ reqs[r].pc = "idle"
  /\ CanCreate(1, MaxStoreCreates)
  /\ LET q == Track(Begin("POST /api/budgets", u))
         b == [ userId |-> u, categoryId |-> body.categoryId,
                amount |-> body.amount, period |-> body.period ]
         c == IF storage.kind = "mem"
                THEN Mem_createBudget(mem, b, mem.nextId)
                ELSE Mongo_createBudget(db, b, db.nextId, ok)
     IN  ReplyCall(r, q, c, IF c.err = "" THEN <<c.out.id>> ELSE <<>>, "")
  /\ UNCHANGED << lifecycleVars, socketVars >>

\* DELETE /api/budgets/:id
DeleteBudget(r, u, id, ok) ==
  /\ reqs[r].pc = "idle"
  /\ LET q == Track(Begin("DELETE /api/budgets/:id", u))
         c == IF storage.kind = "mem" THEN Mem_deleteBudget(mem, id)
              ELSE Mongo_deleteBudget(db, id, ok)
     IN  ReplyCall(r, q, c, <<>>, Presence(Active.budgets, id))
  /\ UNCHANGED << lifecycleVars, socketVars >>

\* POST /api/categories
PostCategory(r, u, body, ok) ==
  /\ reqs[r].pc = "idle"
  /\ CanCreate(1, MaxStoreCreates)
  /\ LET q == Track(Begin("POST /api/categories", u))
         c == IF storage.kind = "mem" THEN Mem_createCategory(mem, body)
              ELSE Mongo_createCategory(db, body, ok)
     IN  ReplyCall(r, q, c, IF c.err = "" THEN <<c.out.id>> ELSE <<>>, "")
  /\ UNCHANGED << lifecycleVars, socketVars >>

\* DELETE /api/categories/:id
DeleteCategory(r, u, id, ok) ==
  /\ reqs[r].pc = "idle"
  /\ LET q == Track(Begin("DELETE /api/categories/:id", u))
         c == IF storage.kind = "mem" THEN Mem_deleteCategory(mem, id)
              ELSE Mongo_deleteCategory(db, id, ok)
     IN  ReplyCall(r, q, c, <<>>, Presence(Active.categories, id))
  /\ UNCHANGED << lifecycleVars, socketVars >>

\* the categories a client deletes: a custom one, or an id that names none
CategoryIdsSent ==
  {Active.categories[i].id :
     i \in {j \in 1..Len(Active.categories) :
              Active.categories[j].name \notin
                {defaultCategories[k].name : k \in 1..NDefaults}}}
    \cup {MissingObjectId, ClientJunkId}

StoreRequests ==
  \E r \in Reqs :
    \/ \E u \in ReqUsers, body \in StoreBodies :
          PostExpense_Start(r, u, body, MaxStoreCreates)
    \/ \E ok \in DbAnswers : PostExpense_Created(r, ok, MaxStoreCreates)
    \/ \E u \in ReqUsers, id \in IdsSent(Active.expenses), patch \in Patches,
          valid \in BOOLEAN, ok \in DbAnswers :
          PutExpense(r, u, id, patch, valid, ok)
    \/ \E u \in ReqUsers, id \in IdsSent(Active.expenses), ok \in DbAnswers :
          DeleteExpense(r, u, id, ok)
    \/ \E u \in ReqUsers, body \in BudgetBodies, ok \in DbAnswers :
          PostBudget(r, u, body, ok)
    \/ \E u \in ReqUsers, id \in IdsSent(Active.budgets), ok \in DbAnswers :
          DeleteBudget(r, u, id, ok)
    \/ \E u \in ReqUsers, body \in CategoryBodies, ok \in DbAnswers :
          PostCategory(r, u, body, ok)
    \/ \E u \in ReqUsers, id \in CategoryIdsSent, ok \in DbAnswers :
          DeleteCategory(r, u, id, ok)


Requests ==
  \E r \in Reqs :
    \/ PostExpense(r, ReqUsers, ExpenseBodies \cup {<<>>}, MaxCreates)
    \/ PostInsightsGenerate(r, ReqUsers, AiInsightLists, MaxCreates)

Next == Lifecycle \/ Requests

Spec == Init /\ [][Next]_vars

\* The storage methods behind the routes that make one call each, with the
\* driver events that swap the backend under them.  The polling timers are
\* left out: what they do to the binding is what DriverConnected does.
NextStore == DriverConnected \/ DriverDisconnected \/ StoreRequests

SpecStore == Init /\ [][NextStore]_vars

\* The routes through which the users of the model create rows, with the
\* driver events.
UserRequests ==
  \E r \in Reqs :
    \/ \E u \in Users, body \in StoreBodies :
          PostExpense_Start(r, u, body, MaxStoreCreates)
    \/ \E ok \in DbAnswers : PostExpense_Created(r, ok, MaxStoreCreates)
    \/ \E u \in Users, body \in BudgetBodies, ok \in DbAnswers :
          PostBudget(r, u, body, ok)
    \/ PostInsightsGenerate(r, Users, ShortInsightLists, MaxStoreCreates)

NextUsers == DriverConnected \/ DriverDisconnected \/ UserRequests

SpecUsers == Init /\ [][NextUsers]_vars

\* ---- GET /api/analytics/stats
StatsRoute == "GET /api/analytics/stats"

\* the for loop over categoryResult up to its next findById: an item whose
\* _id is falsy is pushed without a lookup
RECURSIVE Stats_skipFalsy(_)
Stats_skipFalsy(acc) ==
  IF acc.pending # <<>> /\ ~Mongo_needsLookup(Head(acc.pending).id)
    THEN Stats_skipFalsy(
           [acc EXCEPT !.breakdown =
                         Append(@, Mongo_breakdownEntry(Head(acc.pending),
                                                        <<>>)),
                       !.pending = Tail(@)])
    ELSE acc

\* the loop runs on to its next await: a findById, or the third aggregation
Stats_next(r, q, acc0) ==
  LET acc == Stats_skipFalsy(acc0)
  IN  Suspend(r, [q EXCEPT !.acc = acc],
              IF acc.pending = <<>> THEN "aggDaily" ELSE "findCategory")

\* range = <<>>: startDate or endDate is missing from the query.
\* MemStorage.getExpenseStats answers in the same turn; MongoStorage sends
\* its first aggregation.
GetStats_Start(r, u, range) ==
  /\ reqs[r].pc = "idle"
  /\ IF range = <<>>
       THEN Reply(r, Begin(StatsRoute, u), 400, <<>>, "", "")
       ELSE LET q == [Track(Begin(StatsRoute, u)) EXCEPT !.range = range]
            IN  IF storage.kind = "mem"
                  THEN Reply(r, q, 200,
                             Mem_getExpenseStats(mem, u, range[1], range[2]),
                             "", "")
                  ELSE Suspend(r, q, "aggTotal")
  /\ UNCHANGED << lifecycleVars, socketVars, mem, db >>

\* the first aggregation has answered
GetStats_Total(r, ok) ==
  /\ reqs[r].pc = "aggTotal"
  /\ LET q == reqs[r]
     IN  IF ~ok THEN Reply(r, q, 500, <<>>, "Unavailable", "")
         ELSE Suspend(r,
                [q EXCEPT !.acc =
                   [ totalSpent |-> Mongo_aggTotal(db, q.user, q.range[1],
                                                   q.range[2]),
                     pending |-> <<>>, breakdown |-> <<>> ]],
                "aggCategories")
  /\ UNCHANGED << lifecycleVars, socketVars, mem, db >>

\* the second aggregation has answered
GetStats_Categories(r, ok) ==
  /\ reqs[r].pc = "aggCategories"
  /\ LET q == reqs[r]
     IN  IF ~ok THEN Reply(r, q, 500, <<>>, "Unavailable", "")
         ELSE Stats_next(r, q,
                [q.acc EXCEPT !.pending =
                   Mongo_aggCategories(db, q.user, q.range[1], q.range[2])])
  /\ UNCHANGED << lifecycleVars, socketVars, mem, db >>

\* CategoryModel.findById(item._id) has answered
GetStats_Found(r, ok) ==
  /\ reqs[r].pc = "findCategory"
  /\ LET q == reqs[r]
         item == Head(q.acc.pending)
     IN  IF ~ok THEN Reply(r, q, 500, <<>>, "Unavailable", "")
         ELSE IF ~IsObjectId(item.id)
           THEN Reply(r, q, 500, <<>>, "CastError", "")
         ELSE Stats_next(r, q,
                [q.acc EXCEPT
                   !.breakdown =
                     Append(@, Mongo_breakdownEntry(item,
                                 Mongo_findCategory(db, item.id))),
                   !.pending = Tail(@)])
  /\ UNCHANGED << lifecycleVars, socketVars, mem, db >>

\* the third aggregation has answered
GetStats_Daily(r, ok) ==
  /\ reqs[r].pc = "aggDaily"
  /\ LET q == reqs[r]
     IN  IF ~ok THEN Reply(r, q, 500, <<>>, "Unavailable", "")
         ELSE Reply(r, q, 200,
                    [ totalSpent |-> q.acc.totalSpent,
                      categoryBreakdown |-> q.acc.breakdown,
                      dailyTrend |-> Mongo_aggDaily(db, q.user, q.range[1],
                                                    q.range[2]) ],
                    "", "")
  /\ UNCHANGED << lifecycleVars, socketVars, mem, db >>

\* the ranges the client asks for: the first day, and both days
StatsRanges ==
  { <<DateList[1], DateList[1]>>, <<DateList[1], DateList[2]>> }

GetStats(r, users) ==
  \/ \E u \in users, range \in StatsRanges \cup {<<>>} :
        GetStats_Start(r, u, range)
  \/ \E ok \in DbAnswers : GetStats_Total(r, ok)
  \/ \E ok \in DbAnswers : GetStats_Categories(r, ok)
  \/ \E ok \in DbAnswers : GetStats_Found(r, ok)
  \/ \E ok \in DbAnswers : GetStats_Daily(r, ok)

\* ---- the listing routes: one storage call each
ListIds(rows) == [i \in 1..Len(rows) |-> rows[i].id]

\* target "dbFailed": the database call behind the read failed (ghost)
ReplyList(r, q, c, ok) ==
  /\ IF c.err = ""
       THEN Reply(r, q, 200, ListIds(c.out), "",
                  IF storage.kind = "mongo" /\ ~ok THEN "dbFailed" ELSE "")
       ELSE Reply(r, q, 500, <<>>, c.err, "dbFailed")
  /\ UNCHANGED << lifecycleVars, socketVars, mem, db >>

\* GET /api/categories
GetCategories(r, u, ok) ==
  /\ reqs[r].pc = "idle"
  /\ ReplyList(r, Track(Begin("GET /api/categories", u)),
               Ret(Active,
                   IF storage.kind = "mem" THEN Mem_getCategories(mem)
                   ELSE Mongo_getCategories(db, ok), ""),
               ok)

\* GET /api/expenses without ?limit
GetExpenses(r, u, ok) ==
  /\ reqs[r].pc = "idle"
  /\ ReplyList(r, Track(Begin("GET /api/expenses", u)),
               IF storage.kind = "mem"
                 THEN Ret(mem, Mem_getExpensesByUser(mem, u, DefaultLimit), "")
                 ELSE Mongo_getExpensesByUser(db, u, DefaultLimit, ok),
               ok)

\* GET /api/insights
GetInsights(r, u, ok) ==
  /\ reqs[r].pc = "idle"
  /\ ReplyList(r, Track(Begin("GET /api/insights", u)),
               IF storage.kind = "mem"
                 THEN Ret(mem, Mem_getInsightsByUser(mem, u), "")
                 ELSE Mongo_getInsightsByUser(db, u, ok),
               ok)

\* GET /api/budgets
GetBudgets(r, u, ok) ==
  /\ reqs[r].pc = "idle"
  /\ ReplyList(r, Track(Begin("GET /api/budgets", u)),
               IF storage.kind = "mem"
                 THEN Ret(mem, Mem_getBudgetsByUser(mem, u), "")
                 ELSE Mongo_getBudgetsByUser(db, u, ok),
               ok)

\* The analytics read and the routes that create expenses and categories,
\* one request at a time, with the driver events.  A client names no
\* category, an empty one, or a custom category of the active backend.
StatsCategoryIds ==
  {NULL, EMPTYSTR} \cup (CategoryIdsSent \ {MissingObjectId, ClientJunkId})

StatsRequests ==
  \E r \in Reqs :
    \/ \E u \in ReqUsers, c \in StatsCategoryIds, d \in Dates :
          PostExpense_Start(r, u, [categoryId |-> c, amount |-> Amt250_50,
                                   date |-> d], MaxStoreCreates)
    \/ \E answer \in AiAnswers :
          PostExpense_Categorized(r, answer, MaxStoreCreates)
    \/ \E ok \in DbAnswers :
          PostExpense_GotCategories(r, ok, MaxStoreCreates)
    \/ \E ok \in DbAnswers : PostExpense_Created(r, ok, MaxStoreCreates)
    \/ \E u \in ReqUsers, body \in CategoryBodies, ok \in DbAnswers :
          PostCategory(r, u, body, ok)
    \/ GetStats(r, ReqUsers)

NextStats == DriverConnected \/ DriverDisconnected \/ StatsRequests

SpecStats == Init /\ [][NextStats]_vars

\* The analytics read in its own slot while another request creates an
\* expense, with the driver events.
RaceRequests ==
  \/ \E r \in Reqs :
       \/ \E u \in ReqUsers, body \in StoreBodies :
             PostExpense_Start(r, u, body, MaxStoreCreates)
       \/ \E ok \in DbAnswers : PostExpense_Created(r, ok, MaxStoreCreates)
  \/ \E r \in StatReqs : GetStats(r, ReqUsers)

NextRace == DriverConnected \/ DriverDisconnected \/ RaceRequests

SpecRace == Init /\ [][NextRace]_vars

\* The listing routes beside the routes that create expenses and budgets,
\* with the driver events.
ListRequests ==
  \E r \in Reqs :
    \/ \E u \in ReqUsers, body \in StoreBodies :
          PostExpense_Start(r, u, body, MaxStoreCreates)
    \/ \E ok \in DbAnswers : PostExpense_Created(r, ok, MaxStoreCreates)
    \/ \E u \in ReqUsers, body \in BudgetBodies, ok \in DbAnswers :
          PostBudget(r, u, body, ok)
    \/ \E u \in ReqUsers, ok \in DbAnswers : GetCategories(r, u, ok)
    \/ \E u \in ReqUsers, ok \in DbAnswers : GetExpenses(r, u, ok)
    \/ \E u \in ReqUsers, ok \in DbAnswers : GetInsights(r, u, ok)
    \/ \E u \in ReqUsers, ok \in DbAnswers : GetBudgets(r, u, ok)

NextLists == DriverConnected \/ DriverDisconnected \/ ListRequests

SpecLists == Init /\ [][NextLists]_vars

\* The two routes that call an AI service, with the answers of the remote
\* model drawn from CategorizerReplies and InsightReplies, and the driver
\* events.
AiRequests ==
  \E r \in Reqs :
    \/ \E u \in ReqUsers, body \in ExpenseBodies :
          PostExpense_Start(r, u, body, MaxCreates)
    \/ \E x \in CategorizerReplies :
          PostExpense_Categorized(r, categorizeExpense(x).category, MaxCreates)
    \/ \E ok \in DbAnswers : PostExpense_GotCategories(r, ok, MaxCreates)
    \/ \E ok \in DbAnswers : PostExpense_Created(r, ok, MaxCreates)
    \/ \E u \in ReqUsers : Generate_Start(r, u)
    \/ \E ok \in DbAnswers : Generate_Cleared(r, ok)
    \/ \E ok \in DbAnswers : Generate_Listed(r, ok)
    \/ \E y \in InsightReplies :
          Generate_Generated(r, generateInsights(y), MaxCreates)
    \/ \E oks \in SaveOutcomes(Len(reqs[r].ai)) :
          Generate_Saved(r, oks, MaxCreates)

NextAi == DriverConnected \/ DriverDisconnected \/ AiRequests

SpecAi == Init /\ [][NextAi]_vars

\* ================================================================ claims
PutRoute == "PUT /api/expenses/:id"
DeleteRoutes ==
  { "DELETE /api/expenses/:id", "DELETE /api/budgets/:id",
    "DELETE /api/categories/:id" }

\* C1: every storage call of one request runs against the backend instance
\* that was active when the request started, so that no request mixes the
\* results of two backends.
C1_RequestKeepsItsBackend ==
  /\ \A r \in Reqs : ~reqs[r].offStart /\ Cardinality(reqs[r].kinds) <= 1
  /\ ~resp.mixed

\* a step of one of the two polling timers that finds the connection live
PollFindsLive ==
  /\ readyState = Connected
  /\ \/ firstPending /\ ~firstPending'
     \/ intervalOn /\ ~intervalOn' /\ stopPending' = stopPending

\* C2: a live connection brings the active backend to the document backend.
\* Whenever the connection is live the binding is a MongoStorage: the
\* 'connected' event replaces an in-memory binding in the step that makes the
\* connection live, and a poll that finds it live binds a new MongoStorage.
C2_LiveConnectionUpgrades ==
  [][ /\ readyState' = Connected => storage'.kind = "mongo"
      /\ (readyState # Connected /\ readyState' = Connected
            /\ storage.kind = "mem") => storage'.inst # storage.inst
      /\ PollFindsLive => storage'.kind = "mongo" /\ storage'.inst # storage.inst
    ]_vars

\* C2 happens: a poll has found the connection live and the binding is the
\* document backend, with rows left behind in the in-memory one
C2_Witness ==
  /\ readyState = Connected /\ storage.kind = "mongo" /\ pollHit
  /\ mem.expenses # <<>>

\* C3: a 'disconnected' event handled while the document backend is active
\* binds a newly constructed MemStorage, with the eight default categories
\* and no other row; handled while the in-memory backend is active it
\* changes nothing.
C3_DisconnectedFallsBack ==
  [][ (readyState # 0 /\ readyState' = 0) =>
        IF storage.kind = "mongo"
          THEN /\ storage'.kind = "mem" /\ storage'.inst # storage.inst
               /\ Len(mem'.categories) = 8
               /\ \A i \in 1..8 :
                    mem'.categories[i].name = defaultCategories[i].name
               /\ mem'.users = <<>> /\ mem'.expenses = <<>>
               /\ mem'.budgets = <<>> /\ mem'.insights = <<>>
               /\ mem'.userProfiles = <<>>
          ELSE storage' = storage /\ mem' = mem
    ]_vars

\* C3 happens: the connection is down, the in-memory backend is active and
\* empty, and the database holds rows written while it was active
C3_Witness ==
  /\ readyState = 0 /\ storage.kind = "mem"
  /\ db.expenses # <<>> /\ mem.expenses = <<>>

\* C4: before any connectivity check or driver event has run (the 100 ms
\* attempt is pending, the connection is still being opened) the active
\* backend is the in-memory one and every check is still to come.
C4_StartsInMemory ==
  (firstPending /\ readyState = 2) =>
    /\ storage.kind = "mem"
    /\ ~pollHit /\ intervalOn /\ stopPending

\* C4 happens: a request has been served from the in-memory backend before
\* any check or event
C4_Witness ==
  firstPending /\ readyState = 2 /\ mem.expenses # <<>>

\* C5 as stated: once the window has closed with every poll failed, the
\* active backend is the in-memory one for good.
C5_StaysInMemoryForever ==
  (~stopPending /\ ~pollHit) => storage.kind = "mem"

\* C5: once the window has closed with every poll failed, no poll is armed,
\* none succeeds later, and the only step that upgrades the backend is the
\* 'connected' event of the driver.
C5_OnlyTheEventUpgradesLater ==
  [][ (~stopPending /\ ~pollHit) =>
        /\ ~firstPending /\ ~intervalOn
        /\ ~pollHit'
        /\ (storage.kind = "mem" /\ storage'.kind = "mongo")
              => (readyState # Connected /\ readyState' = Connected)
    ]_vars

\* C5 happens: the window closed with every poll failed, and the document
\* backend is active all the same
C5_Witness ==
  ~stopPending /\ ~pollHit /\ storage.kind = "mongo"

\* C6: once a poll has succeeded or the window has expired, no poll replaces
\* the active backend again: only a driver event changes the binding.
C6_PollingStops ==
  [][ (pollHit \/ ~stopPending) =>
        (storage' # storage => readyState' # readyState) ]_vars

\* the kinds of backend through which the rows were created that the reads
\* of MongoStorage return for user u
MongoReadVias(u) ==
  LET cats == Mongo_getCategories(db, TRUE)
      exps == Mongo_getExpensesByUser(db, u, DefaultLimit, TRUE).out
      ins  == Mongo_getInsightsByUser(db, u, TRUE).out
      buds == Mongo_getBudgetsByUser(db, u, TRUE).out
      prof == Mongo_getUserProfile(db, u, TRUE)
  IN  {cats[i].via : i \in 1..Len(cats)}
        \cup {exps[i].via : i \in 1..Len(exps)}
        \cup {exps[i].category[1].via :
                i \in {j \in 1..Len(exps) : exps[j].category # <<>>}}
        \cup {ins[i].via : i \in 1..Len(ins)}
        \cup {buds[i].via : i \in 1..Len(buds)}
        \cup {prof[i].via : i \in 1..Len(prof)}

\* C7: a swap is no migration.  The binding names one backend instance, and
\* while it is a MongoStorage no read returns a row created through the
\* in-memory backend.
C7_SwapIsNoMigration ==
  /\ storage \in [kind : {"mem", "mongo"}, inst : 0..2]
  /\ storage.kind = "mongo" =>
       \A u \in Users : "mem" \notin MongoReadVias(u)

\* C7 happens: the document backend is active and returns rows, and the
\* in-memory instance left behind holds an expense
C7_Witness ==
  /\ storage.kind = "mongo"
  /\ mem.expenses # <<>>
  /\ MongoReadVias("u1") # {}

\* the rows of user u alone
OnlyUser(s, u) ==
  [ s EXCEPT !.expenses = SelectSeq(@, LAMBDA e : e.userId = u),
             !.insights = SelectSeq(@, LAMBDA x : x.userId = u),
             !.budgets = SelectSeq(@, LAMBDA b : b.userId = u) ]

\* the date ranges the reads are called with
DateRanges == { <<DateList[1], DateList[2]>>, <<DateList[2], DateList[2]>> }

\* the owners of the rows a list read returns
Owners(rows) == {rows[i].userId : i \in 1..Len(rows)}

\* the by-user reads of MemStorage on store s return rows of u alone, and
\* return what they return on store t
Mem_ReadsAgree(s, t, u) ==
  /\ \A limit \in {1, DefaultLimit} :
       /\ Owners(Mem_getExpensesByUser(s, u, limit)) \subseteq {u}
       /\ Mem_getExpensesByUser(s, u, limit)
            = Mem_getExpensesByUser(t, u, limit)
  /\ \A d \in DateRanges :
       /\ Owners(Mem_getExpensesByUserAndDateRange(s, u, d[1], d[2]))
            \subseteq {u}
       /\ Mem_getExpensesByUserAndDateRange(s, u, d[1], d[2])
            = Mem_getExpensesByUserAndDateRange(t, u, d[1], d[2])
       /\ Mem_getExpenseStats(s, u, d[1], d[2])
            = Mem_getExpenseStats(t, u, d[1], d[2])
  /\ Owners(Mem_getInsightsByUser(s, u)) \subseteq {u}
  /\ Mem_getInsightsByUser(s, u) = Mem_getInsightsByUser(t, u)
  /\ Owners(Mem_getBudgetsByUser(s, u)) \subseteq {u}
  /\ Mem_getBudgetsByUser(s, u) = Mem_getBudgetsByUser(t, u)

\* the same for MongoStorage, on a database that answers
Mongo_ReadsAgree(s, t, u) ==
  /\ \A limit \in {1, DefaultLimit} :
       /\ Owners(Mongo_getExpensesByUser(s, u, limit, TRUE).out) \subseteq {u}
       /\ Mongo_getExpensesByUser(s, u, limit, TRUE).out
            = Mongo_getExpensesByUser(t, u, limit, TRUE).out
  /\ \A d \in DateRanges :
       /\ Owners(Mongo_getExpensesByUserAndDateRange(s, u, d[1], d[2],
                                                     TRUE).out) \subseteq {u}
       /\ Mongo_getExpensesByUserAndDateRange(s, u, d[1], d[2], TRUE).out
            = Mongo_getExpensesByUserAndDateRange(t, u, d[1], d[2], TRUE).out
       /\ Mongo_getExpenseStats(s, u, d[1], d[2], TRUE).out
            = Mongo_getExpenseStats(t, u, d[1], d[2], TRUE).out
  /\ Owners(Mongo_getInsightsByUser(s, u, TRUE).out) \subseteq {u}
  /\ Mongo_getInsightsByUser(s, u, TRUE).out
       = Mongo_getInsightsByUser(t, u, TRUE).out
  /\ Owners(Mongo_getBudgetsByUser(s, u, TRUE).out) \subseteq {u}
  /\ Mongo_getBudgetsByUser(s, u, TRUE).out
       = Mongo_getBudgetsByUser(t, u, TRUE).out

\* C8: each by-user read called for u returns rows of u alone, and what it
\* returns or aggregates is what it returns when the rows of every other
\* user are taken out of the store.
C8_ByUserReadsAreIsolated ==
  \A u \in Users :
    /\ Mem_ReadsAgree(mem, OnlyUser(mem, u), u)
    /\ Mongo_ReadsAgree(db, OnlyUser(db, u), u)

\* C8 happens: the database holds expenses of both users, the document
\* backend is active and its read for u1 returns one of them
C8_Witness ==
  /\ storage.kind = "mongo"
  /\ {db.expenses[i].userId : i \in 1..Len(db.expenses)} = Users
  /\ Len(Mongo_getExpensesByUser(db, "u1", DefaultLimit, TRUE).out) = 1

C10_DeleteMissingIsError ==
  (resp.route \in DeleteRoutes /\ resp.target = "missing") => resp.status # 200

\* ---- analytics
\* the positions of the expenses of user u whose date lies in [range[1],
\* range[2]], and the sum of the amounts at a set of positions
InRange(st, u, range) ==
  { i \in 1..Len(st.expenses) :
      /\ st.expenses[i].userId = u
      /\ DateRank(st.expenses[i].date) >= DateRank(range[1])
      /\ DateRank(st.expenses[i].date) <= DateRank(range[2]) }

RECURSIVE SumOver(_, _)
SumOver(st, I) ==
  IF I = {} THEN 0
  ELSE LET i == CHOOSE k \in I : TRUE
       IN  st.expenses[i].amount[1] + SumOver(st, I \ {i})

AllRanges == Dates \X Dates

EmptyStats ==
  [totalSpent |-> Num(0), categoryBreakdown |-> <<>>, dailyTrend |-> <<>>]

StatsCoverRange(st, stats, u, range) ==
  LET I == InRange(st, u, range)
  IN  /\ stats.totalSpent = Num(SumOver(st, I))
      /\ SumAmt(stats.categoryBreakdown) = Num(SumOver(st, I))
      /\ SumAmt(stats.dailyTrend) = Num(SumOver(st, I))
      /\ \A p \in 1..Len(stats.dailyTrend) :
            \E i \in I : st.expenses[i].date = stats.dailyTrend[p].date
      /\ I = {} => stats = EmptyStats

\* the handlers of the analytics route that have their total
StatsWithTotal ==
  { r \in Slots : /\ reqs[r].route = StatsRoute
                  /\ reqs[r].pc \in {"aggCategories", "findCategory",
                                     "aggDaily"} }

\* C11: for every user and every range, totalSpent is the sum of the amounts
\* of exactly that user's expenses with startDate <= date <= endDate, no
\* expense outside the range contributes to categoryBreakdown or dailyTrend,
\* and an empty selection gives 0 and two empty lists without an error, on
\* both backends; the total a handler on MongoStorage holds is that sum.
C11_StatsCoverExactlyTheRange ==
  /\ \A u \in Users, range \in AllRanges :
        /\ StatsCoverRange(mem,
             Mem_getExpenseStats(mem, u, range[1], range[2]), u, range)
        /\ LET c == Mongo_getExpenseStats(db, u, range[1], range[2], TRUE)
           IN  /\ c.err = "" => StatsCoverRange(db, c.out, u, range)
               /\ InRange(db, u, range) = {} => c.err = ""
  /\ \A r \in StatsWithTotal :
        reqs[r].acc.totalSpent =
          Num(SumOver(db, InRange(db, reqs[r].user, reqs[r].range)))

C11_Witness ==
  /\ reqs[1].route = StatsRoute
  /\ reqs[1].pc = "aggDaily"
  /\ reqs[1].range = <<DateList[1], DateList[1]>>
  /\ reqs[1].acc.totalSpent = parseFloat(Amt250_50)
  /\ \E i \in 1..Len(db.expenses) :
        db.expenses[i].userId = reqs[1].user
          /\ db.expenses[i].date = DateList[2]

\* C12: in every result of getExpenseStats the amounts of categoryBreakdown
\* add up to totalSpent, and so do the amounts of dailyTrend.
C12_BreakdownsSumToTotal ==
  (resp.route = StatsRoute /\ resp.status = 200) =>
     /\ SumAmt(resp.body.categoryBreakdown) = resp.body.totalSpent
     /\ SumAmt(resp.body.dailyTrend) = resp.body.totalSpent

\* dailyTrend is strictly ascending by date
StrictlyAscending(trend) ==
  \A p \in 1..(Len(trend) - 1) :
     DateRank(trend[p].date) < DateRank(trend[p + 1].date)

\* each entry of dailyTrend holds the sum of the selected expenses of its date
DailySums(st, trend, u, range) ==
  \A p \in 1..Len(trend) :
     trend[p].amount =
       Num(SumOver(st, { i \in InRange(st, u, range) :
                           st.expenses[i].date = trend[p].date }))

\* C13: dailyTrend is sorted strictly ascending by date (no date twice) and
\* each entry's amount is the sum of the selected expenses of that date, on
\* both backends and in every answer of the analytics route.
C13_DailyTrendAscendingNoDuplicates ==
  /\ \A u \in Users, range \in AllRanges :
        /\ LET t == Mem_getExpenseStats(mem, u, range[1], range[2]).dailyTrend
           IN  StrictlyAscending(t) /\ DailySums(mem, t, u, range)
        /\ LET t == Mongo_aggDaily(db, u, range[1], range[2])
           IN  StrictlyAscending(t) /\ DailySums(db, t, u, range)
  /\ (resp.route = StatsRoute /\ resp.status = 200) =>
        StrictlyAscending(resp.body.dailyTrend)

C13_Witness ==
  /\ resp.route = StatsRoute
  /\ resp.status = 200
  /\ storage.kind = "mongo"
  /\ Len(resp.body.dailyTrend) = 2

\* the category key of the specification: an expense without a category id
\* (none sent, or an empty one) counts under UNCAT
CategoryKeyOf(e) == IF Falsy(e.categoryId) THEN UNCAT ELSE e.categoryId

NonIncreasing(list) ==
  \A p \in 1..(Len(list) - 1) : AmtKey(list[p]) >= AmtKey(list[p + 1])

BreakdownByCategory(st, breakdown, u, range) ==
  LET I == InRange(st, u, range)
      keys == {CategoryKeyOf(st.expenses[i]) : i \in I}
      sumOf(k) == Num(SumOver(st, {i \in I : CategoryKeyOf(st.expenses[i]) = k}))
  IN  /\ Len(breakdown) = Cardinality(keys)
      /\ NonIncreasing(breakdown)
      /\ UNCAT \in keys =>
           \E p \in 1..Len(breakdown) :
              breakdown[p] = [ categoryName |-> "Uncategorized",
                               color |-> "#6b7280", amount |-> sumOf(UNCAT) ]
      /\ \A k \in keys :
           (k # UNCAT /\ MapHas(st.categories, k)) =>
              \E p \in 1..Len(breakdown) :
                 breakdown[p] =
                   [ categoryName |-> MapGet(st.categories, k).name,
                     color |-> MapGet(st.categories, k).color,
                     amount |-> sumOf(k) ]

\* C14: categoryBreakdown has one entry per distinct category id of the
\* selected expenses, in non-increasing order of amount; the expenses without
\* a category id are summed into one entry "Uncategorized" / #6b7280, and an
\* entry of an existing category carries its name and color.
C14_OneEntryPerCategory ==
  \A u \in Users, range \in AllRanges :
     /\ BreakdownByCategory(mem,
          Mem_getExpenseStats(mem, u, range[1], range[2]).categoryBreakdown,
          u, range)
     /\ LET c == Mongo_getExpenseStats(db, u, range[1], range[2], TRUE)
        IN  c.err = "" =>
              BreakdownByCategory(db, c.out.categoryBreakdown, u, range)

\* ---- categories
DeleteCategoryRoute == "DELETE /api/categories/:id"

\* an expense names a category its store does not hold
Dangling(st, e) == ~Falsy(e.categoryId) /\ ~MapHas(st.categories, e.categoryId)

\* every row of a read whose category is gone carries no category
AbsentResolved(st, rows) ==
  \A i \in 1..Len(rows) : Dangling(st, rows[i]) => rows[i].category = <<>>

\* a selection with an expense whose category is gone has an entry
\* "Uncategorized"
AbsentReported(st, stats, u, range) ==
  (\E i \in InRange(st, u, range) : Dangling(st, st.expenses[i])) =>
     \E p \in 1..Len(stats.categoryBreakdown) :
        /\ stats.categoryBreakdown[p].categoryName = "Uncategorized"
        /\ stats.categoryBreakdown[p].color = "#6b7280"

\* the three expense reads complete and resolve a missing category to absent
ReadsSurviveMissingCategory(m, d) ==
  \A u \in Users :
     /\ AbsentResolved(m, Mem_getExpensesByUser(m, u, DefaultLimit))
     /\ LET c == Mongo_getExpensesByUser(d, u, DefaultLimit, TRUE)
        IN  c.err = "" /\ AbsentResolved(d, c.out)
     /\ \A range \in AllRanges :
          /\ AbsentResolved(m,
               Mem_getExpensesByUserAndDateRange(m, u, range[1], range[2]))
          /\ AbsentReported(m,
               Mem_getExpenseStats(m, u, range[1], range[2]), u, range)
          /\ LET c == Mongo_getExpensesByUserAndDateRange(d, u, range[1],
                                                          range[2], TRUE)
             IN  c.err = "" /\ AbsentResolved(d, c.out)
          /\ LET c == Mongo_getExpenseStats(d, u, range[1], range[2], TRUE)
             IN  c.err = "" /\ AbsentReported(d, c.out, u, range)

\* C15: a DELETE /api/categories/:id removes at most the one category and
\* leaves every expense and budget of both backends as it was; after it (and
\* in every state) the reads of expenses complete without error, resolve a
\* category that is gone to absent, and the stats name it "Uncategorized".
C15_DeleteCategoryDoesNotCascade ==
  [][ (resp' # resp /\ resp'.route = DeleteCategoryRoute) =>
        /\ mem'.expenses = mem.expenses /\ mem'.budgets = mem.budgets
        /\ db'.expenses = db.expenses /\ db'.budgets = db.budgets
        /\ Range(mem'.categories) \subseteq Range(mem.categories)
        /\ Range(db'.categories) \subseteq Range(db.categories)
        /\ Len(mem'.categories) + Len(db'.categories) + 1
             >= Len(mem.categories) + Len(db.categories)
        /\ ReadsSurviveMissingCategory(mem', db') ]_vars

C15_Witness ==
  /\ resp.route = DeleteCategoryRoute
  /\ resp.status = 200
  /\ resp.target = "present"
  /\ storage.kind = "mongo"
  /\ \E i \in 1..Len(db.expenses) : Dangling(db, db.expenses[i])

\* ---- failures of the database
ListRoutes ==
  { "GET /api/categories", "GET /api/expenses", "GET /api/insights",
    "GET /api/budgets" }
WriteRoutes == {"POST /api/expenses", "POST /api/budgets"}

\* C16: a listing read whose database call failed answers with an empty
\* list and no error, while the failure of a create is passed on to the
\* caller.
C16_FailedListingReadsAreEmpty ==
  /\ (resp.route \in ListRoutes /\ resp.target = "dbFailed") =>
        (resp.status = 200 /\ resp.body = <<>> /\ resp.err = "")
  /\ (resp.route \in WriteRoutes /\ resp.err = "Unavailable") =>
        resp.status = 500

\* ---- the AI services
GenerateRoute == "POST /api/insights/generate"
AiRoutes == {"POST /api/expenses", GenerateRoute}

\* C17: when the remote call fails, answers nothing or answers text that is
\* no JSON, categorizeExpense returns the fixed fallback and generateInsights
\* the three fallback insights, and a 500 of the two routes always comes
\* from a storage call, never from the AI service.
C17_AiFailuresFallBack ==
  /\ \A x \in CategorizerReplies :
        x.kind \in AiFailures => categorizeExpense(x) = FallbackCategorization
  /\ \A y \in InsightReplies :
        y.kind \in AiFailures =>
          (generateInsights(y) = FallbackInsights /\ Len(generateInsights(y)) = 3)
  /\ (resp.route \in AiRoutes /\ resp.status = 500) =>
        resp.err \in {"Unavailable", "CastError"}
  /\ \A r \in Reqs :
        reqs[r].pc \in {"getCategories", "createExpense"} => reqs[r].answer # ""

C17_Witness ==
  /\ resp.route = GenerateRoute
  /\ resp.status = 200
  /\ Len(resp.body) = 3
  /\ \E i \in 1..Len(Active.insights) :
        Active.insights[i].title = "AI Insights Unavailable"

\* the insights a backend holds
StoredInsights == Range(mem.insights) \cup Range(db.insights)

\* C18: every call of generateInsights returns exactly 3 insights, each with
\* a type of alert / goal / warning / recommendation and a priority of
\* low / medium / high: a generate request that succeeds has saved 3, and
\* every insight saved has such a type and priority.
C18_AlwaysThreeInsights ==
  /\ (resp.route = GenerateRoute /\ resp.status = 200) => Len(resp.body) = 3
  /\ \A x \in StoredInsights :
        x.type \in InsightTypes /\ x.priority \in InsightPriorities

\* the expenses a backend holds name a category it holds
ExpensesCategorized(st) ==
  \A i \in 1..Len(st.expenses) :
     /\ ~Falsy(st.expenses[i].categoryId)
     /\ MapHas(st.categories, st.expenses[i].categoryId)

\* C19: an expense posted without categoryId (every expense of this
\* specification) is stored with a categoryId that names a category of the
\* backend that stores it, and a handler that was answered "transportation"
\* goes on with the id of the category Transportation.
C19_PostedExpenseGetsCategory ==
  /\ ExpensesCategorized(mem)
  /\ ExpensesCategorized(db)
  /\ \A r \in Reqs :
        (reqs[r].pc = "createExpense" /\ reqs[r].answer = "transportation") =>
           \E st \in {mem, db} :
              /\ MapHas(st.categories, reqs[r].catId)
              /\ MapGet(st.categories, reqs[r].catId).name = "Transportation"

\* ------------------------------------- client: the budget progress card
\* components/budget-progress.tsx reads /api/budgets and /api/expenses (the
\* default limit of the route) and derives one status per budget.
ALLSTR == <<-6, 0>>

\* The browser's clock zone.  new Date("YYYY-MM-DD") is midnight UTC, and
\* getFullYear / getMonth read it in local time: west of Greenwich the first
\* day of a month falls in the month before.
Zones == {"utc", "west"}

\* << getFullYear(), getMonth() >> of new Date(d)
YearMonth(d, zone) ==
  IF d = "2024-03-15" THEN <<2024, 2>>
  ELSE IF zone = "west" THEN <<2024, 2>> ELSE <<2024, 3>>

\* the months new Date() can fall in
Months == {<<2024, 2>>, <<2024, 3>>}

\* Math.max(budgetAmount - spent, 0)
remainingOf(budgetAmount, spent) ==
  IF budgetAmount = NaN \/ spent = NaN THEN NaN
  ELSE IF budgetAmount[1] - spent[1] > 0
         THEN Num(budgetAmount[1] - spent[1]) ELSE Num(0)

\* spent > budgetAmount
isOverBudget(budgetAmount, spent) ==
  budgetAmount # NaN /\ spent # NaN /\ spent[1] > budgetAmount[1]

\* the badge: percentage = Math.min((spent / budgetAmount) * 100, 100), for
\* the positive budget amounts of the model
badgeOf(budgetAmount, spent) ==
  IF isOverBudget(budgetAmount, spent) THEN "Over Budget"
  ELSE IF budgetAmount # NaN /\ spent # NaN
          /\ 100 * spent[1] >= 80 * budgetAmount[1] THEN "Near Limit"
  ELSE "On Track"

\* the expenses a budget counts
categoryExpenses(budget, expenses, now, zone) ==
  SelectSeq(expenses, LAMBDA expense :
     /\ budget.period = "monthly" => YearMonth(expense.date, zone) = now
     /\ \/ Falsy(budget.categoryId)
        \/ budget.categoryId = ALLSTR
        \/ expense.categoryId = budget.categoryId)

budgetData(budgets, expenses, now, zone) ==
  [ i \in 1..Len(budgets) |->
      LET budget == budgets[i]
          counted == categoryExpenses(budget, expenses, now, zone)
          spent == SumAmt(counted)
          budgetAmount == budget.amount
      IN  [ id |-> budget.id, categoryId |-> budget.categoryId,
            period |-> budget.period,
            spent |-> spent, budgetAmount |-> budgetAmount,
            remaining |-> remainingOf(budgetAmount, spent),
            isOverBudget |-> isOverBudget(budgetAmount, spent),
            badge |-> badgeOf(budgetAmount, spent),
            categoryExpenses |-> Len(counted) ] ]

\* what the card of user u shows when both of its reads are answered
BudgetCard(u, now, zone) ==
  IF storage.kind = "mem"
    THEN budgetData(Mem_getBudgetsByUser(mem, u),
                    Mem_getExpensesByUser(mem, u, DefaultLimit), now, zone)
    ELSE budgetData(Mongo_getBudgetsByUser(db, u, TRUE).out,
                    Mongo_getExpensesByUser(db, u, DefaultLimit, TRUE).out,
                    now, zone)

\* the amounts of every expense of u the active backend holds in month now
SpentInMonth(u, now, zone) ==
  SumAmt(SelectSeq(Active.expenses, LAMBDA e :
            e.userId = u /\ YearMonth(e.date, zone) = now))

\* C20: a monthly budget with no category, of amount B, of a user whose
\* expenses of the current month sum to S > B, is shown as "Over Budget"
\* with spent = S and remaining = B - S, a negative amount.
C20_OverBudgetRemainingIsNegative ==
  \A u \in ReqUsers, now \in Months, zone \in Zones :
    LET card == BudgetCard(u, now, zone)
        S == SpentInMonth(u, now, zone)
    IN  \A i \in 1..Len(card) :
          ( /\ Falsy(card[i].categoryId)
            /\ card[i].period = "monthly"
            /\ isOverBudget(card[i].budgetAmount, S) ) =>
             /\ card[i].badge = "Over Budget"
             /\ card[i].spent = S
             /\ card[i].remaining = Num(card[i].budgetAmount[1] - S[1])

\* ------------------------------------------ amounts the schemas let through
\* insertExpenseSchema / insertBudgetSchema: amount is z.string().min(1), so
\* every non-empty string passes the route validation.
AmtNeg5 == <<"-", "5">>
AmtAbc == <<"a", "b", "c">>
AmountsSent == {Amt250_50, AmtNeg5, AmtAbc}

AmountBodies ==
  { [ categoryId |-> <<-1, NDefaults + 1>>, amount |-> a,
      date |-> "2024-03-15" ] : a \in AmountsSent }
AmountPatches == { [amount |-> a] : a \in AmountsSent }
AmountBudgetBodies ==
  { [categoryId |-> NULL, amount |-> a, period |-> "monthly"] :
      a \in AmountsSent }

AmountRequests ==
  \E r \in Reqs :
    \/ \E u \in ReqUsers, body \in AmountBodies :
          PostExpense_Start(r, u, body, MaxStoreCreates)
    \/ \E ok \in DbAnswers : PostExpense_Created(r, ok, MaxStoreCreates)
    \/ \E u \in ReqUsers, id \in IdsSent(Active.expenses),
          patch \in AmountPatches, valid \in BOOLEAN, ok \in DbAnswers :
          PutExpense(r, u, id, patch, valid, ok)
    \/ \E u \in ReqUsers, body \in AmountBudgetBodies, ok \in DbAnswers :
          PostBudget(r, u, body, ok)

NextAmounts == DriverConnected \/ DriverDisconnected \/ AmountRequests

SpecAmounts == Init /\ [][NextAmounts]_vars

NonNegativeAmount(row) == row.amount # NaN /\ row.amount[1] >= 0

\* C21: the amount of every stored expense and budget, of either backend,
\* is a number and is not negative.
C21_StoredAmountsAreNonNegativeNumbers ==
  \A st \in {mem, db} :
    /\ \A i \in 1..Len(st.expenses) : NonNegativeAmount(st.expenses[i])
    /\ \A i \in 1..Len(st.budgets) : NonNegativeAmount(st.budgets[i])

\* ================================================== the WebSocket server
\* if (ws.readyState === WebSocket.OPEN) ws.send(JSON.stringify(message))
SendIfOpen(w, c, type) ==
  IF w.state[c] = "open" THEN [w EXCEPT !.inbox[c] = Append(@, type)] ELSE w

\* a send to every socket of the registry, whatever its readyState
broadcast_anyState(w, type) ==
  [ w EXCEPT !.inbox = [c \in Conns |-> IF c \in w.clients
                                          THEN Append(w.inbox[c], type)
                                          ELSE w.inbox[c]] ]

\* clients.forEach(client => { if (client.readyState === OPEN) client.send })
broadcast(w, type) ==
  [ w EXCEPT !.inbox = [c \in Conns |-> IF c \in w.clients
                                          THEN SendIfOpen(w, c, type).inbox[c]
                                          ELSE w.inbox[c]] ]

getConnectedClientsCount(w) == Cardinality(w.clients)

BroadcastTypes == {"expense_update", "insights_update", "analytics_update"}
RoomToSend == \A c \in Conns : Len(wss.inbox[c]) < MaxMessages
OnlyWss == UNCHANGED << lifecycleVars, mem, db, reqs, resp, hook >>

\* wss.on('connection'): clients.add(ws), then the welcome message
WsConnection(c) ==
  /\ wss.state[c] = "none"
  /\ wss' = SendIfOpen([wss EXCEPT !.clients = @ \cup {c},
                                   !.state[c] = "open",
                                   !.live = @ \cup {c}], c, "connection")
  /\ OnlyWss

\* ws.on('message'): a ping is answered with a pong, anything else dropped
WsMessage(c, type) ==
  /\ wss.state[c] \in {"open", "closing"}
  /\ RoomToSend
  /\ wss' = IF type = "ping" THEN SendIfOpen(wss, c, "pong") ELSE wss
  /\ OnlyWss

\* the closing handshake has started: readyState CLOSING, no event yet
WsClosing(c) ==
  /\ wss.state[c] = "open"
  /\ wss' = [wss EXCEPT !.state[c] = "closing"]
  /\ OnlyWss

\* ws.on('close'): clients.delete(ws)
WsClose(c) ==
  /\ wss.state[c] \in {"open", "closing"}
  /\ wss' = [wss EXCEPT !.state[c] = "closed", !.clients = @ \ {c},
                        !.live = @ \ {c}]
  /\ OnlyWss

\* ws.on('error'): clients.delete(ws); the socket is left in readyState
\* after (as it was, or CLOSING)
WsError(c, after) ==
  /\ wss.state[c] \in {"open", "closing"}
  /\ after \in {wss.state[c], "closing"}
  /\ wss' = [wss EXCEPT !.state[c] = after, !.clients = @ \ {c},
                        !.live = @ \ {c}]
  /\ OnlyWss

\* notifyExpenseUpdate / notifyInsightsUpdate / notifyAnalyticsUpdate, called
\* by a holder of the service object
Broadcast(type) ==
  /\ RoomToSend
  /\ wss.sends < MaxMessages
  /\ wss' = [broadcast(wss, type) EXCEPT !.sends = @ + 1]
  /\ OnlyWss

WsEvents ==
  \/ \E c \in Conns : WsConnection(c)
  \/ \E c \in Conns, type \in {"ping", "hello"} : WsMessage(c, type)
  \/ \E c \in Conns : WsClosing(c)
  \/ \E c \in Conns : WsClose(c)
  \/ \E c \in Conns, after \in {"open", "closing"} : WsError(c, after)
  \/ \E type \in BroadcastTypes : Broadcast(type)

SpecWs == Init /\ [][WsEvents]_vars

\* C25: the registry is the set of connections accepted and not yet closed
\* or errored, getConnectedClientsCount is its size, and a broadcast appends
\* its message once to the inbox of every registered connection whose
\* socket is OPEN and leaves every other inbox as it was.
C25_BroadcastReachesExactlyOpenClients ==
  [][ /\ wss'.clients = wss'.live
      /\ getConnectedClientsCount(wss') = Cardinality(wss'.live)
      /\ wss'.sends # wss.sends =>
           \E type \in BroadcastTypes : \A c \in Conns :
              wss'.inbox[c] =
                 IF c \in wss.live /\ wss.state[c] = "open"
                   THEN Append(wss.inbox[c], type) ELSE wss.inbox[c] ]_vars

\* two broadcasts have been made; connection c got a broadcast as its third
\* message, and connection d, closed by now, holds two messages
C25_Witness ==
  \E c, d \in Conns :
    /\ c # d
    /\ wss.sends >= 2
    /\ wss.inbox[c] # <<>> /\ wss.inbox[c][Len(wss.inbox[c])] \in BroadcastTypes
    /\ Len(wss.inbox[c]) = 3
    /\ wss.state[d] = "closed"
    /\ Len(wss.inbox[d]) = 2

\* ---- the routes that change expenses or insights, with client connections
\* coming and going.  index.ts stores the service object with
\* app.set('wsService', ...); no handler reads it back, so no route step
\* touches wss, and nothing else calls broadcast.
NotifyRequests ==
  \E r \in Reqs :
    \/ \E u \in ReqUsers, body \in StoreBodies :
          PostExpense_Start(r, u, body, MaxStoreCreates)
    \/ \E ok \in DbAnswers : PostExpense_Created(r, ok, MaxStoreCreates)
    \/ \E u \in ReqUsers, id \in IdsSent(Active.expenses), patch \in Patches,
          valid \in BOOLEAN, ok \in DbAnswers :
          PutExpense(r, u, id, patch, valid, ok)
    \/ \E u \in ReqUsers, id \in IdsSent(Active.expenses), ok \in DbAnswers :
          DeleteExpense(r, u, id, ok)
    \/ PostInsightsGenerate(r, ReqUsers, {FallbackInsights}, MaxCreates)

ConnectionEvents ==
  \E c \in Conns : WsConnection(c) \/ WsClosing(c) \/ WsClose(c)

NextNotify == DriverConnected \/ NotifyRequests \/ ConnectionEvents

SpecNotify == Init /\ [][NextNotify]_vars

NotifyingRoutes ==
  { "POST /api/expenses", "PUT /api/expenses/:id", "DELETE /api/expenses/:id",
    GenerateRoute }
ChangeEvent(route) ==
  IF route = GenerateRoute THEN "insights_update" ELSE "expense_update"

\* C22: the step in which a route answers 200 to a create, update or delete
\* of an expense, or to a regeneration of insights, sends the change event
\* of its type to every registered connection that is OPEN at that moment.
C22_WritesNotifyOpenClients ==
  [][ (resp' # resp /\ resp'.status = 200 /\ resp'.route \in NotifyingRoutes)
        => \A c \in Conns :
             (c \in wss.clients /\ wss.state[c] = "open") =>
                wss'.inbox[c] =
                   Append(wss.inbox[c], ChangeEvent(resp'.route)) ]_vars

\* ---- POST /api/insights/generate from two requests at a time (the client
\* fires one a second after every expense it adds), the database coming up,
\* if it does, before the first of them
ConnectedBeforeRequests ==
  /\ resp = NoResp
  /\ \A r \in Slots : reqs[r].pc = "idle"
  /\ DriverConnected

RegenRequests ==
  \E r \in Slots :
    PostInsightsGenerate(r, ReqUsers, ShortInsightLists, MaxCreates)

NextRegen == ConnectedBeforeRequests \/ RegenRequests

SpecRegen == Init /\ [][NextRegen]_vars

StoredInsightIds(st, u) ==
  { st.insights[i].id : i \in {j \in 1..Len(st.insights) :
                                  st.insights[j].userId = u} }

\* C23: when every generate request has completed and the last one was
\* answered 200, the insights stored for the user are exactly the batch
\* that answer returned: nothing of another cycle is left beside it.
C23_RegenerationLeavesOneBatch ==
  ( /\ \A r \in Slots : reqs[r].pc = "idle"
    /\ resp.route = GenerateRoute
    /\ resp.status = 200 )
  => \A u \in ReqUsers : StoredInsightIds(Active, u) = Range(resp.body)

\* ---- the backends coming and going after the bootstrap, with requests
\* that read and create categories.  Every step that can be taken is taken
\* in the end: timers fire, requests are answered.
SeedRequests ==
  \E r \in Reqs :
    \/ \E u \in ReqUsers, ok \in DbAnswers : GetCategories(r, u, ok)
    \/ \E u \in ReqUsers, body \in CategoryBodies, ok \in DbAnswers :
          PostCategory(r, u, body, ok)

NextSeed == Lifecycle \/ SeedRequests

SpecSeed == Init /\ [][NextSeed]_vars /\ WF_vars(NextSeed)

\* storage.getCategories() of the active backend, answered
ActiveCategories ==
  IF storage.kind = "mem" THEN Mem_getCategories(mem)
  ELSE Mongo_getCategories(db, TRUE)

DefaultsListed ==
  \A i \in 1..NDefaults :
     Cardinality({ j \in 1..Len(ActiveCategories) :
                     ActiveCategories[j].name = defaultCategories[i].name }) = 1

\* C24: whenever the active backend has no category, getCategories through
\* the active backend returns the eight defaults at some later time, and no
\* default is ever listed twice.
C24_EmptyBackendIsSeeded ==
  /\ (Len(ActiveCategories) = 0) ~> DefaultsListed
  /\ [](\A i \in 1..NDefaults :
          Cardinality({ j \in 1..Len(ActiveCategories) :
             ActiveCategories[j].name = defaultCategories[i].name }) <= 1)

\* the same entries, each as often, in whatever order
SeqCount(seq, x) == Cardinality({i \in 1..Len(seq) : seq[i] = x})
SameEntries(a, b) ==
  /\ Len(a) = Len(b)
  /\ \A x \in Range(a) \cup Range(b) : SeqCount(a, x) = SeqCount(b, x)

\* both implementations of getExpenseStats agree on the rows of store st
StatsAgreeOn(st) ==
  \A u \in ReqUsers, range \in AllRanges :
    LET m == Mem_getExpenseStats(st, u, range[1], range[2])
        g == Mongo_getExpenseStats(st, u, range[1], range[2], TRUE)
    IN  g.err = "" =>
          /\ m.totalSpent = g.out.totalSpent
          /\ m.dailyTrend = g.out.dailyTrend
          /\ SameEntries(m.categoryBreakdown, g.out.categoryBreakdown)

\* C26: on the same expenses and categories (the rows either backend holds
\* in any reachable state) and the same user and range, the two
\* getExpenseStats return the same totalSpent, the same dailyTrend and the
\* same categoryBreakdown entries.
C26_BackendsAgreeOnStats == StatsAgreeOn(mem) /\ StatsAgreeOn(db)

\* PUT /api/insights/:id/read
PutInsightRead(r, u, id, ok) ==
  /\ reqs[r].pc = "idle"
  /\ LET q == Track(Begin("PUT /api/insights/:id/read", u))
         c == IF storage.kind = "mem" THEN Mem_markInsightAsRead(mem, id)
              ELSE Mongo_markInsightAsRead(db, id, ok)
     IN  ReplyCall(r, q, c, <<>>, Presence(Active.insights, id))
  /\ UNCHANGED << lifecycleVars, socketVars >>

\* ---- two users: Writer sends the writes by id, with any id the active
\* backend holds; Other only creates rows
Writer == "u1"
Other == "u2"

OwnerRequests ==
  \E r \in Reqs :
    \/ \E body \in StoreBodies :
          PostExpense_Start(r, Other, body, MaxStoreCreates)
    \/ \E ok \in DbAnswers : PostExpense_Created(r, ok, MaxStoreCreates)
    \/ \E body \in BudgetBodies, ok \in DbAnswers :
          PostBudget(r, Other, body, ok)
    \/ PostInsightsGenerate(r, {Other}, ShortInsightLists, MaxStoreCreates)
    \/ \E id \in IdsSent(Active.expenses), patch \in Patches,
          valid \in BOOLEAN, ok \in DbAnswers :
          PutExpense(r, Writer, id, patch, valid, ok)
    \/ \E id \in IdsSent(Active.expenses), ok \in DbAnswers :
          DeleteExpense(r, Writer, id, ok)
    \/ \E id \in IdsSent(Active.budgets), ok \in DbAnswers :
          DeleteBudget(r, Writer, id, ok)
    \/ \E id \in IdsSent(Active.insights), ok \in DbAnswers :
          PutInsightRead(r, Writer, id, ok)

NextOwners == DriverConnected \/ OwnerRequests

SpecOwners == Init /\ [][NextOwners]_vars

ByIdWriteRoutes ==
  { "PUT /api/expenses/:id", "DELETE /api/expenses/:id",
    "DELETE /api/budgets/:id", "PUT /api/insights/:id/read" }

\* C28: a write by id that Writer sends leaves every by-user read of Other
\* as it was, on either backend.
C28_WritesByIdKeepOthersRows ==
  [][ (resp' # resp /\ resp'.route \in ByIdWriteRoutes) =>
        /\ Mem_ReadsAgree(mem, mem', Other)
        /\ Mongo_ReadsAgree(db, db', Other) ]_vars

\* ================================================ the client's hook
OnlyHook == UNCHANGED << lifecycleVars, mem, db, reqs, resp, wss >>

Constructed(h) == Cardinality({k \in 1..MaxSockets : h.sock[k] # "none"})

\* connect(): const ws = new WebSocket(wsUrl); wsRef.current = ws
connect(h) ==
  LET n == Constructed(h) + 1
  IN  [ h EXCEPT !.sock[n] = "connecting", !.wsRef = n,
                 !.opened = IF h.stopped THEN @ + 1 ELSE @ ]

\* clearTimeout(reconnectTimeoutRef.current); ...current = null, when the
\* ref holds a handle
clearReconnect(h) ==
  IF h.timeoutRef # 0
    THEN [h EXCEPT !.timers = @ \ {h.timeoutRef}, !.timeoutRef = 0]
    ELSE h

\* disconnect(): close and forget the socket, clear the timer of the ref
disconnect(h) ==
  LET closed ==
        IF h.wsRef # 0
          THEN [ h EXCEPT !.sock[h.wsRef] =
                            IF @ \in {"connecting", "open"} THEN "closing"
                            ELSE @,
                          !.wsRef = 0 ]
          ELSE h
  IN  [clearReconnect(closed) EXCEPT !.stopped = TRUE]

\* useEffect(() => { connect(); ... }, [])
HookMount ==
  /\ hook.phase = "initial"
  /\ hook' = [connect(hook) EXCEPT !.phase = "mounted"]
  /\ OnlyHook

\* ws.onopen of socket k
SockOpen(k) ==
  /\ hook.sock[k] = "connecting"
  /\ hook' = clearReconnect([hook EXCEPT !.sock[k] = "open"])
  /\ OnlyHook

\* ws.onclose of socket k (the connection failed, was lost, or the close
\* that close() started is done): the reconnect timer is armed and its
\* handle stored in the ref
SockClose(k) ==
  /\ hook.sock[k] \in {"connecting", "open", "closing"}
  /\ hook' = [ hook EXCEPT !.sock[k] = "closed", !.timeoutRef = k,
                           !.timers = @ \cup {k} ]
  /\ OnlyHook

\* the reconnect timer armed by socket k fires: connect()
ReconnectFires(k) ==
  /\ k \in hook.timers
  /\ Constructed(hook) < MaxSockets
  /\ hook' = connect([hook EXCEPT !.timers = @ \ {k}])
  /\ OnlyHook

\* the cleanup of the mount effect: disconnect()
HookUnmount ==
  /\ hook.phase = "mounted"
  /\ hook' = [disconnect(hook) EXCEPT !.phase = "unmounted"]
  /\ OnlyHook

\* disconnect() called through the object the hook returns
HookDisconnect ==
  /\ hook.phase = "mounted"
  /\ ~hook.stopped
  /\ hook' = disconnect(hook)
  /\ OnlyHook

HookEvents ==
  \/ HookMount
  \/ \E k \in 1..MaxSockets : SockOpen(k)
  \/ \E k \in 1..MaxSockets : SockClose(k)
  \/ \E k \in 1..MaxSockets : ReconnectFires(k)
  \/ HookUnmount
  \/ HookDisconnect

SpecHook == Init /\ [][HookEvents]_vars

\* C27: once disconnect() has run, no reconnect timer is armed and no socket
\* is constructed; and while the hook is mounted and not disconnected, the
\* close of the current socket arms the reconnect timer.
C27_NoReconnectAfterDisconnect ==
  [][ /\ hook'.stopped => (hook'.timers = {} /\ hook'.opened = 0)
      /\ \A k \in 1..MaxSockets :
           ( /\ hook.phase = "mounted" /\ ~hook.stopped /\ hook.wsRef = k
             /\ hook.sock[k] # "closed" /\ hook'.sock[k] = "closed" )
           => k \in hook'.timers ]_vars

\* C29: the document backend is active only while the connection is live;
\* the step that handles 'disconnected' leaves the in-memory backend
\* active; from the in-memory backend only the 'connected' event or a poll
\* that finds the connection live binds the document backend; and no step
\* taken while the connection is down and stays down changes the binding.
C29_BackendFollowsConnectivity ==
  [][ /\ storage'.kind = "mongo" => readyState' = Connected
      /\ (readyState # 0 /\ readyState' = 0) => storage'.kind = "mem"
      /\ (storage.kind = "mem" /\ storage'.kind = "mongo") =>
            \/ readyState # Connected /\ readyState' = Connected
            \/ PollFindsLive
      /\ (readyState # Connected /\ readyState' = readyState) =>
            storage' = storage ]_vars

\* C29 happens: a poll had bound the document backend, the connection was
\* lost, the in-memory backend is active and the polling window is over
C29_Witness ==
  /\ readyState = 0 /\ storage.kind = "mem" /\ pollHit
  /\ ~stopPending /\ ~firstPending


\* ------------------------------------------------ MemStorage id generation
\* generateId() is Math.random().toString(36).substr(2, 9): nothing ties one
\* output to the ones before it, and no create method looks the id up before
\* Map.set.  Here the MemStorage methods are called directly and the
\* generator's next output is any of IdTokens: the last default category's
\* token and two that the constructor did not hand out.  nextId keeps
\* counting the calls (it is the clock of the rows).
MaxIdCreates == 3
IdTokens == {NDefaults, NDefaults + 1, NDefaults + 2}
IdUsernames == {"ann", "bob"}

CreateOps ==
  {"createUser", "createCategory", "createExpense", "createInsight",
   "createBudget"}
CollectionOf(op) ==
  CASE op = "createUser"     -> "users"
    [] op = "createCategory" -> "categories"
    [] op = "createExpense"  -> "expenses"
    [] op = "createInsight"  -> "insights"
    [] op = "createBudget"   -> "budgets"
    [] OTHER                 -> ""
Collections ==
  {"users", "categories", "expenses", "insights", "budgets", "userProfiles"}

\* the store when the generator is about to return token t
Drawing(s, t) == [s EXCEPT !.nextId = t]

\* the call returns c.out and leaves the store c.s
Returned(op, c) ==
  /\ Created(mem) < MaxIdCreates
  /\ storage.kind = "mem"
  /\ mem' = [c.s EXCEPT !.nextId = mem.nextId + 1]
  /\ resp' = [NoResp EXCEPT !.route = op, !.body = <<c.out>>]
  /\ UNCHANGED << lifecycleVars, socketVars, db, reqs >>

Call_createUser(t, username) ==
  Returned("createUser", Mem_createUser(Drawing(mem, t), username))

Call_createCategory(t, body) ==
  Returned("createCategory", Mem_createCategory(Drawing(mem, t), body))

Call_createExpense(t, u, body) ==
  Returned("createExpense",
           Mem_createExpense(Drawing(mem, t),
                             [ userId |-> u, categoryId |-> body.categoryId,
                               amount |-> body.amount, date |-> body.date ],
                             mem.nextId))

Call_createInsight(t, u, insight) ==
  Returned("createInsight",
           Mem_createInsight(Drawing(mem, t), WithUser(insight, u),
                             mem.nextId))

Call_createBudget(t, u, body) ==
  Returned("createBudget",
           Mem_createBudget(Drawing(mem, t),
                            [ userId |-> u, categoryId |-> body.categoryId,
                              amount |-> body.amount,
                              period |-> body.period ],
                            mem.nextId))

NextIds ==
  \E t \in IdTokens :
    \/ \E username \in IdUsernames : Call_createUser(t, username)
    \/ \E body \in CategoryBodies : Call_createCategory(t, body)
    \/ \E u \in Users, body \in ExpenseBodies : Call_createExpense(t, u, body)
    \/ \E u \in Users : Call_createInsight(t, u, Head(FallbackInsights))
    \/ \E u \in Users, body \in BudgetBodies : Call_createBudget(t, u, body)

SpecIds == Init /\ [][NextIds]_vars

\* the step is a call of a create method, and row is what it returned
CreateReturned == resp'.route \in CreateOps /\ mem'.nextId = mem.nextId + 1
ReturnedRow == resp'.body[1]
Materialized(row) == {"id", "createdAt"} \subseteq DOMAIN row

\* C30: every create method of MemStorage adds exactly one row, under an id
\* its collection did not hold, returns that row with its id and creation
\* timestamp, and leaves every stored row of every collection as it was: no
\* create overwrites a row.
C30_CreateAddsOneFreshRow ==
  [][ CreateReturned =>
        /\ Materialized(ReturnedRow)
        /\ \A k \in Collections :
             IF k = CollectionOf(resp'.route)
               THEN /\ ~MapHas(mem[k], ReturnedRow.id)
                    /\ mem'[k] = Append(mem[k], ReturnedRow)
               ELSE mem'[k] = mem[k] ]_vars

\* C30 as it holds: the same, for the calls whose generated id the
\* collection does not hold; a call whose generated id is already a key of
\* the collection puts the returned row in that key's place and leaves the
\* other rows and the other collections as they were.
C30_CreateAddsRowUnderGeneratedId ==
  [][ CreateReturned =>
        /\ Materialized(ReturnedRow)
        /\ \A k \in Collections :
             IF k # CollectionOf(resp'.route) THEN mem'[k] = mem[k]
             ELSE IF ~MapHas(mem[k], ReturnedRow.id)
               THEN mem'[k] = Append(mem[k], ReturnedRow)
               ELSE /\ Len(mem'[k]) = Len(mem[k])
                    /\ \A i \in 1..Len(mem[k]) :
                         mem'[k][i] = IF mem[k][i].id = ReturnedRow.id
                                        THEN ReturnedRow ELSE mem[k][i] ]_vars

\* two expenses stored under two generated ids, the second just returned
C30_Witness ==
  /\ resp.route = "createExpense"
  /\ Len(mem.expenses) = 2
  /\ mem.expenses[2] = resp.body[1]
  /\ mem.expenses[1].id # mem.expenses[2].id

====
